---- MODULE Spec2Model ----
(***************************************************************************)
(* Model of the image transform pipeline of astra_astro/image_process.py:  *)
(* process_image (the orchestrator), process_image_from_dict (the          *)
(* dictionary entry point) and the filter stages they call.                *)
(*                                                                         *)
(* Numbers.  Pixel values are fixed-point integers, One units to 1.0 (one  *)
(* unit is 1e-4); the value NaN stands for IEEE not-a-number.  Stretch     *)
(* factors, contrast and noise strengths and progress values are in        *)
(* hundredths (0.15 is 15, 1.3 is 130, progress 1.0 is 100).               *)
(*                                                                         *)
(* Rasters.  A raster is [shape, px]: shape is <<H, W>> or <<H, W, C>>, px *)
(* the pixels in row-major, channel-last order.  The rasters of the model  *)
(* have H = 1 and W <= 2, for which the large-footprint filters of scipy   *)
(* (reflect boundary mode) have the closed forms used below.               *)
(***************************************************************************)
EXTENDS Integers, Sequences, FiniteSets

VARIABLES
    pc,              \* position of the run in process_image / process_image_from_dict
    entry,           \* "process_image" or "from_dict": the entry point called
    params_dict,     \* the caller's dictionary (from_dict entry)
    params,          \* the ProcessingParams object of the run
    params0,         \* the caller's ProcessingParams as handed in (history)
    object_name,     \* "" (None or empty) or a name
    cb,              \* the progress callback: "none" or "set"
    input,           \* the input file: [readable, data]
    data,            \* the raster returned by _load_fits
    processed,       \* the raster the stages transform
    target_type,     \* resolved TargetType value
    stretch_factor,  \* effective stretch factor (hundredths)
    background_removal,
    star_reduction,
    events,          \* progress events handed to the callback, in order
    calls,           \* stage functions called so far, in order
    fs,              \* filesystem: [dir, fits, preview], the output directory and files
    now,             \* clock (ticks)
    start_time,      \* the clock when process_image was entered
    cbLogged,        \* a callback exception was caught and logged
    failedAt,        \* the step whose exception reached the except clause, or "none"
    result,          \* the ProcessingResult returned, or NoResult
    raised,          \* an exception propagated to the caller of the entry point
    clock,           \* the wall clock time.strftime reads, in whole seconds
    timestamp,       \* the timestamp of the run's output paths, or NoStamp
    header,          \* the header _load_fits returned: the set of its keys
    out_header,      \* the header of the written output raster: [key, origin] cards
    other,           \* a second run on the same input file and output directory
    lookup           \* a call of classify_from_name: its name, results and position

vars == <<pc, entry, params_dict, params, params0, object_name, cb, input, data,
          processed, target_type, stretch_factor, background_removal,
          star_reduction, events, calls, fs, now, start_time, cbLogged, failedAt,
          result, raised, clock, timestamp, header, out_header, other, lookup>>

----------------------------------------------------------------------------
(* Units and bounds *)

\* 1.0 in pixel units
One == 10000

\* the IEEE not-a-number, as a value outside every pixel range of the model
NaN == -999999999

\* input pixel levels are -0.5 and k * 0.5 for k in 0..MaxLevel
MaxLevel == 3

\* largest number of bad (unconvertible) entries in a caller's dictionary
MaxBadEntries == 1

\* the wall clock runs over the seconds 0..MaxClock
MaxClock == 1

Min(a, b) == IF a <= b THEN a ELSE b
Max(a, b) == IF a >= b THEN a ELSE b

----------------------------------------------------------------------------
(* target_classify.py: TargetType;  image_process.py: TARGET_PARAMS *)

TargetType == {"emission_nebula", "reflection_nebula", "planetary_nebula",
               "galaxy", "globular_cluster", "open_cluster", "star_field",
               "unknown"}

TARGET_PARAMS ==
    [t \in TargetType |->
        CASE t = "emission_nebula"   -> [stretch_factor |-> 18, background_removal |-> TRUE,  star_reduction |-> TRUE]
          [] t = "reflection_nebula" -> [stretch_factor |-> 15, background_removal |-> TRUE,  star_reduction |-> FALSE]
          [] t = "planetary_nebula"  -> [stretch_factor |-> 20, background_removal |-> TRUE,  star_reduction |-> FALSE]
          [] t = "galaxy"            -> [stretch_factor |-> 12, background_removal |-> TRUE,  star_reduction |-> FALSE]
          [] t = "globular_cluster"  -> [stretch_factor |-> 10, background_removal |-> TRUE,  star_reduction |-> FALSE]
          [] t = "open_cluster"      -> [stretch_factor |-> 8,  background_removal |-> TRUE,  star_reduction |-> FALSE]
          [] t = "star_field"        -> [stretch_factor |-> 5,  background_removal |-> FALSE, star_reduction |-> FALSE]
          [] OTHER                   -> [stretch_factor |-> 15, background_removal |-> TRUE,  star_reduction |-> FALSE]]

\* ProcessingParams() with its dataclass defaults
DefaultParams ==
    [target_type |-> "auto", stretch_method |-> "statistical", stretch_factor |-> 15,
     background_removal |-> TRUE, star_reduction |-> FALSE, color_calibration |-> TRUE,
     noise_reduction |-> 0, contrast |-> 130]

\* ProcessingParams.to_dict: the fields as they are, under the camelCase keys
ParamsToDict(p) ==
    [targetType |-> p.target_type, stretchMethod |-> p.stretch_method,
     stretchFactor |-> p.stretch_factor, backgroundRemoval |-> p.background_removal,
     starReduction |-> p.star_reduction, colorCalibration |-> p.color_calibration,
     noiseReduction |-> p.noise_reduction, contrast |-> p.contrast]

----------------------------------------------------------------------------
(* Rasters and numeric helpers *)

NChan(d) == IF Len(d.shape) = 3 THEN d.shape[3] ELSE 1
NPix(d) == d.shape[1] * d.shape[2]

\* channel i of raster d, in spatial order
Chan(d, i) == [k \in 1..NPix(d) |-> d.px[(k - 1) * NChan(d) + i]]

HasNaN(s) == \E k \in 1..Len(s) : s[k] = NaN

\* the values of s in ascending order: position i holds the value with fewer
\* than i values below it and at least i values not above it
SortOf(a) ==
    [i \in 1..Len(a) |->
        CHOOSE v \in {a[k] : k \in 1..Len(a)} :
            /\ Cardinality({k \in 1..Len(a) : a[k] < v}) < i
            /\ Cardinality({k \in 1..Len(a) : a[k] <= v}) >= i]

\* np.sort of an array (the array is bound once, as the element of a singleton)
SortAsc(s) == CHOOSE t \in {SortOf(a) : a \in {s}} : TRUE

RECURSIVE SeqSum(_)
SeqSum(s) == IF s = <<>> THEN 0 ELSE Head(s) + SeqSum(Tail(s))

\* np.min / np.max of a NaN-free array
SeqMin(s) == SortAsc(s)[1]
SeqMax(s) == SortAsc(s)[Len(s)]

\* np.clip(v, 0, 1): a NaN stays a NaN
Clip01(v) == IF v = NaN THEN NaN ELSE Max(0, Min(One, v))
ClipSeq(s) == [k \in 1..Len(s) |-> Clip01(s[k])]

\* <<q, r>> with a * b = q * c + r and 0 <= r < c, for a, b >= 0 and c > 0,
\* computed without forming a * b (the intermediate values stay below 2^31)
\* (the half product h is bound once, as the element of a singleton)
RECURSIVE MulDivMod(_, _, _)
MulDivMod(a, b, c) ==
    IF b = 0 THEN <<0, 0>>
    ELSE CHOOSE r \in
           {LET t == 2 * h[2] + (b % 2) * (a % c)
            IN  <<2 * h[1] + (b % 2) * (a \div c) + t \div c, t % c>> :
              h \in {MulDivMod(a, b \div 2, c)}} : TRUE

\* floor(a * b / c) for a, b >= 0 and c > 0
MulDiv(a, b, c) == MulDivMod(a, b, c)[1]

RECURSIVE Pow2(_)
Pow2(n) == IF n <= 0 THEN 1 ELSE 2 * Pow2(n - 1)

\* floor of the square root, by bisection on lo..hi
RECURSIVE SqrtIn(_, _, _)
SqrtIn(n, lo, hi) ==
    IF lo >= hi THEN lo
    ELSE LET mid == (lo + hi + 1) \div 2
         IN  IF mid * mid <= n THEN SqrtIn(n, mid, hi) ELSE SqrtIn(n, lo, mid - 1)
ISqrt(n) == SqrtIn(n, 0, 46340)

\* log2(a / b) in thousandths for a, b > 0: the integer part exactly, the
\* fraction by linear interpolation between powers of two (non-decreasing in a)
RECURSIVE Lg(_, _)
Lg(a, b) ==
    IF a >= 2 * b THEN 1000 + Lg(a, 2 * b)
    ELSE IF a < b THEN Lg(2 * a, b) - 1000
    ELSE ((a - b) * 1000) \div b

\* 2^(y / 1000) in pixel units, the inverse interpolation of Lg, for y <= 0
Exp2(y) ==
    LET k == (0 - y + 999) \div 1000      \* ceiling of -y / 1000
        f == y + 1000 * k                 \* fraction, 0..999
    IN  IF k > 14 THEN 0 ELSE (One * (1000 + f)) \div (1000 * Pow2(k))

\* np.power(x, g) for x in [0, 1] and g > 0 (g in hundredths)
Power(x, g) ==
    IF x = NaN THEN NaN
    ELSE IF x <= 0 THEN 0
    ELSE IF x >= One THEN One
    ELSE Exp2((g * Lg(x, One)) \div 100)

\* 1000 * np.percentile(data, q), linear interpolation, for the quantile pm / 1000
\* (pm = 5 is the 0.5th percentile, pm = 999 the 99.9th); s is sorted
Percentile(s, pm) ==
    LET t == pm * (Len(s) - 1)
        i == t \div 1000
        f == t % 1000
    IN  IF i + 2 > Len(s) THEN 1000 * s[i + 1]
        ELSE 1000 * s[i + 1] + f * (s[i + 2] - s[i + 1])

\* 2 * np.median(s): the sum of the two middle values of the sorted sequence
Median2(s) ==
    CHOOSE m \in {t[(Len(t) + 1) \div 2] + t[Len(t) \div 2 + 1] :
                    t \in {SortAsc(s)}} : TRUE

----------------------------------------------------------------------------
(* The filter stages *)

\* ndimage.median_filter(channel, size=100), reflect mode, on a 1 x W channel
\* with W <= 2: every 100 x 100 window holds each pixel equally often, and
\* the filter takes the element of rank size // 2, the upper median
BackgroundLevel(ch) == SortAsc(ch)[Len(ch) \div 2 + 1]

\* _remove_background
RemoveBackground(d) ==
    LET c   == NChan(d)
        n   == Len(d.px)
        bg  == [i \in 1..c |-> BackgroundLevel(Chan(d, i))]
        r1  == [k \in 1..n |-> d.px[k] - bg[((k - 1) % c) + 1]]
        mn  == SeqMin(r1)
        r2  == [k \in 1..n |-> r1[k] - mn]
        mx  == SeqMax(r2)
    IN  [d EXCEPT !.px = IF mx > 0 THEN [k \in 1..n |-> (r2[k] * One) \div mx]
                         ELSE r2]

\* _color_calibrate: the four corner patches of a raster with H, W <= 10 are
\* each the whole raster; medians are kept doubled to stay exact
ColorCalibrate(d) ==
    IF Len(d.shape) # 3 \/ d.shape[3] # 3 THEN d
    ELSE
    LET n     == Len(d.px)
        med2  == [i \in 1..3 |->
                    Median2(Chan(d, i) \o Chan(d, i) \o Chan(d, i) \o Chan(d, i))]
        tot   == med2[1] + med2[2] + med2[3]      \* 6 * target_bg
        scale(k) == LET i == ((k - 1) % 3) + 1
                    IN  IF med2[i] > 0
                        THEN IF d.px[k] <= 0 THEN 0
                             ELSE Clip01(MulDiv(d.px[k], tot, 3 * med2[i]))
                        ELSE d.px[k]
    IN  IF tot > 0 THEN [d EXCEPT !.px = [k \in 1..n |-> scale(k)]] ELSE d

\* np.clip(num / den, 0, 1) for den > 0
Rescale(num, den) ==
    IF num <= 0 THEN 0 ELSE IF num >= den THEN One ELSE MulDiv(num, One, den)

\* a gamma exponent that is not clamped
GammaUnclipped(target, m2) ==
    IF target < 0 THEN NaN
    ELSE IF target = 0 THEN 200
    ELSE (Lg(target, 100) * 100) \div Lg(m2, 2 * One)

\* the gamma exponent of _statistical_stretch in hundredths:
\* log(target_median) / log(current_median), clipped to [0.2, 2.0];
\* m2 is twice the median in pixel units, target is in hundredths
Gamma(target, m2) ==
    LET den == Lg(m2, 2 * One)
        g   == (Lg(target, 100) * 100) \div den
    IN  IF target < 0 THEN NaN             \* log of a negative number
        ELSE IF target = 0 THEN 200        \* -inf / negative, clipped
        ELSE Max(20, Min(200, g))

\* <<black_point, white_point>> of _statistical_stretch, times 1000 (the
\* sorted pixels are bound once, as the element of a singleton)
BlackWhite(d) ==
    CHOOSE bw \in {<<Percentile(s, 5), Percentile(s, 999)>> :
                     s \in {SortAsc(d.px)}} : TRUE

\* the raster rescaled between the two points and clipped, for white > black
Rescaled(d) ==
    CHOOSE str \in
      {[k \in 1..Len(d.px) |-> Rescale(1000 * d.px[k] - bw[1], bw[2] - bw[1])] :
         bw \in {BlackWhite(d)}} : TRUE

\* a flat-image test that is strict: white_point < black_point
StatBranchStrict(d) ==
    LET black  == BlackWhite(d)[1]
        white  == BlackWhite(d)[2]
        m2     == Median2(Rescaled(d))
    IN  IF white < black THEN "flat"
        ELSE IF 2 * 10 < m2 /\ m2 < 2 * 9990 THEN "gamma" ELSE "nogamma"

\* the branch _statistical_stretch takes: "flat", "gamma" or "nogamma"
StatBranch(d) ==
    LET black  == BlackWhite(d)[1]
        white  == BlackWhite(d)[2]
        m2     == Median2(Rescaled(d))
    IN  IF white <= black THEN "flat"
        ELSE IF 2 * 10 < m2 /\ m2 < 2 * 9990 THEN "gamma" ELSE "nogamma"

\* _statistical_stretch
StatisticalStretch(d, target) ==
    LET n      == Len(d.px)
        mx     == SeqMax(d.px)
        str    == Rescaled(d)
        g      == Gamma(target, Median2(str))
        br     == StatBranch(d)
    IN  IF br = "flat"
        THEN [d EXCEPT !.px = IF mx <= One THEN ClipSeq(d.px)
                              ELSE [k \in 1..n |-> (d.px[k] * One) \div mx]]
        ELSE IF br = "gamma"
        THEN CHOOSE out \in
               {[d EXCEPT !.px = [k \in 1..n |-> IF gv = NaN THEN NaN
                                                 ELSE Power(sv[k], gv)]] :
                  sv \in {str}, gv \in {g}} : TRUE
        ELSE [d EXCEPT !.px = str]

\* _arcsinh_stretch: arcsinh(y) = ln(y + sqrt(y^2 + 1)), y = x * scale = x / dd
\* with dd = 100 * factor pixel units; arcsinh is odd, so x < 0 gives a negative
\* value, clipped to 0
ArcsinhStretch(d, factor) ==
    LET f    == IF factor <= 0 THEN 15 ELSE factor
        dd   == 100 * f
        den  == Lg(One + ISqrt(One * One + dd * dd), dd)
        v(x) == IF x <= 0 THEN 0
                ELSE Clip01((Lg(x + ISqrt(x * x + dd * dd), dd) * One) \div den)
    IN  [d EXCEPT !.px = [k \in 1..Len(d.px) |-> v(d.px[k])]]

\* _log_stretch: offset = factor * 0.01 is `factor` pixel units.
\* log1p(x / offset) is NaN for x / offset < -1 and -inf at -1; np.clip turns
\* -inf into 0 and keeps NaN.  With offset <= 0 every quotient is NaN.
LogStretch(d, factor) ==
    LET offset == factor
        v(x) == IF offset <= 0 THEN NaN
                ELSE IF offset + x < 0 THEN NaN
                ELSE IF offset + x = 0 THEN 0
                ELSE Clip01((Lg(offset + x, offset) * One)
                               \div Lg(offset + One, offset))
    IN  [d EXCEPT !.px = [k \in 1..Len(d.px) |-> v(d.px[k])]]

\* _apply_contrast_curve: mean + (x - mean) * strength, clipped
ApplyContrastCurve(d, strength) ==
    LET n   == Len(d.px)
        tot == SeqSum(d.px)
    IN  IF strength <= 100 THEN d
        ELSE IF HasNaN(d.px) THEN [d EXCEPT !.px = [k \in 1..n |-> NaN]]
        ELSE [d EXCEPT !.px = [k \in 1..n |->
                 Clip01((tot * 100 + (n * d.px[k] - tot) * strength) \div (n * 100))]]

\* luminance of _reduce_stars, per spatial position
Luminance(d) ==
    IF Len(d.shape) = 3
    THEN [j \in 1..NPix(d) |->
            LET r == Chan(d, 1)[j]
                g == Chan(d, 2)[j]
                b == Chan(d, 3)[j]
            IN  IF r = NaN \/ g = NaN \/ b = NaN THEN NaN
                ELSE (299 * r + 587 * g + 114 * b) \div 1000]
    ELSE d.px

\* data * 0.7, clipped: a raster all of whose pixels lie in a star region
Dimmed(d) ==
    [d EXCEPT !.px = [k \in 1..Len(d.px) |->
        IF d.px[k] = NaN THEN NaN ELSE Clip01((d.px[k] * 7) \div 10)]]

\* _reduce_stars on a 1 x W raster, W <= 2: the 5 x 5 maximum filter sees every
\* pixel, a peak dilated 3 times covers the raster, and the blurred reduction
\* map is the constant 0.7 (a peak) or 1.0 (none).  A NaN luminance makes the
\* comparisons of the maximum filter order-dependent: both maps can result.
\* a star reduction that hands back the luminance plane it worked on
ReduceStarsLuminance(d) ==
    {[shape |-> <<d.shape[1], d.shape[2]>>, px |-> Luminance(d)]}

ReduceStars(d) ==
    LET lum == Luminance(d)
        plain == [d EXCEPT !.px = ClipSeq(d.px)]
    IN  IF HasNaN(lum) THEN {plain, Dimmed(d)}
        ELSE IF SeqMax(lum) > 8000 THEN {Dimmed(d)}
        ELSE {plain}

\* weight (per 10000) gaussian_filter puts on a pixel itself in a 1 x 2 row,
\* reflect mode: sigma = strength * 1.5, kernel radius int(4 sigma + 0.5)
OwnWeight(strength) ==
    CASE strength = 50  -> 7508      \* sigma 0.75, radius 3: 0.75076
      [] strength = 100 -> 5311      \* sigma 1.5, radius 6: 0.53115

\* _apply_noise_reduction: per channel; a 1 x 1 channel is left as it is
ApplyNoiseReduction(d, strength) ==
    LET c == NChan(d)
        n == Len(d.px)
        w == OwnWeight(strength)
        nb(k) == IF k <= c THEN k + c ELSE k - c
        v(k) == IF d.px[k] = NaN \/ d.px[nb(k)] = NaN THEN NaN
                ELSE (w * d.px[k] + (10000 - w) * d.px[nb(k)]) \div 10000
    IN  IF strength <= 0 THEN d
        ELSE IF NPix(d) = 1 THEN d
        ELSE [d EXCEPT !.px = [k \in 1..n |-> v(k)]]

----------------------------------------------------------------------------
(* Inputs of a run *)

\* explicit target types of the model's callers besides "auto": three enum
\* values and a string that is no TargetType value
ExplicitTypes == {"emission_nebula", "galaxy", "star_field", "bogus"}

ParamsSet ==
    [target_type : {"auto"} \cup ExplicitTypes,
     stretch_method : {"statistical", "arcsinh", "log", "bogus"},
     stretch_factor : {-10, 0, 22},
     background_removal : BOOLEAN, star_reduction : BOOLEAN,
     color_calibration : BOOLEAN,
     noise_reduction : {0, 50}, contrast : {80, 100, 130}]

\* "" is None or the empty string; "M42" is in KNOWN_OBJECTS; "X" is in no
\* table and matches no pattern; "<42>" is a name that is not a string
ObjectNames == {"", "M42", "X", "<42>"}

Gray(a, b) == [shape |-> <<1, 2>>, px |-> <<a, b>>]
RGB(r, g, b) == [shape |-> <<1, 1, 3>>, px |-> <<r, g, b>>]
NoRaster == [shape |-> <<0, 0>>, px |-> <<>>]

\* input pixel values: -0.5, 0, 0.5, ... MaxLevel * 0.5
Levels == {(k * One) \div 2 : k \in -1..MaxLevel}

\* the lowest, a middle and the highest level
CoarseLevels == {-(One \div 2), One \div 2, (MaxLevel * One) \div 2}

GrayRasters == {Gray(a, b) : a \in Levels, b \in Levels}
RGBRasters == {RGB(r, g, b) : r \in CoarseLevels, g \in CoarseLevels, b \in CoarseLevels}

\* the header of the model's input files: the structural keywords of a 2-D
\* image and one descriptive card
SampleHeader == {"SIMPLE", "BITPIX", "NAXIS", "NAXIS1", "NAXIS2", "OBJECT"}

\* np.moveaxis(a, 0, -1): (C, H, W) -> (H, W, C)
MoveFirstToLast(d) ==
    LET c  == d.shape[1]
        hw == d.shape[2] * d.shape[3]
    IN  [shape |-> <<d.shape[2], d.shape[3], c>>,
         px |-> [k \in 1..(c * hw) |-> d.px[((k - 1) % c) * hw + ((k - 1) \div c) + 1]]]

\* np.moveaxis(a, -1, 0): (H, W, C) -> (C, H, W)
MoveLastToFirst(d) ==
    LET c  == d.shape[3]
        hw == d.shape[1] * d.shape[2]
    IN  [shape |-> <<c, d.shape[1], d.shape[2]>>,
         px |-> [k \in 1..(c * hw) |-> d.px[((k - 1) % hw) * c + ((k - 1) \div hw) + 1]]]

\* the array a FITS file holds for a raster: channels first when it has channels
OnDisk(d) == IF Len(d.shape) = 3 THEN MoveLastToFirst(d) ELSE d

\* _load_fits, lines 462-476, on the array a of the primary HDU
LoadFits(a) ==
    IF Len(a.shape) # 3 THEN a
    ELSE LET m == IF a.shape[1] \in {1, 3, 4} THEN MoveFirstToLast(a) ELSE a
         IN  IF m.shape[3] = 1
             THEN [shape |-> <<m.shape[1], m.shape[2]>>, px |-> m.px]
             ELSE m

\* a readable file that holds the raster d
Readable(d) == [readable |-> TRUE, data |-> OnDisk(d), header |-> SampleHeader]

\* a readable file whose primary HDU holds an array of the given shape, with
\* pixel values 0.1, 0.2, ... in storage order
Container(shape) ==
    LET n == IF Len(shape) = 2 THEN shape[1] * shape[2]
             ELSE shape[1] * shape[2] * shape[3]
    IN  [readable |-> TRUE, data |-> [shape |-> shape, px |-> [k \in 1..n |-> k * 1000]],
         header |-> SampleHeader]

\* 2-D arrays, channel-first arrays with 1, 3 and 4 channels, channel-last
\* arrays with 1, 3 and 4 channels
ContainerShapes ==
    {<<1, 2>>, <<2, 2>>,
     <<1, 1, 2>>, <<3, 1, 2>>, <<3, 2, 2>>, <<4, 1, 1>>, <<4, 2, 2>>,
     <<2, 2, 1>>, <<2, 2, 3>>, <<2, 2, 4>>}
Unreadable == [readable |-> FALSE, data |-> NoRaster, header |-> {}]

\* the keys _save_fits never copies (lines 500-511), less one
EXCLUDED_KEYS_WithoutBlank ==
    {"SIMPLE", "BITPIX", "NAXIS", "NAXIS1", "NAXIS2", "NAXIS3", "EXTEND",
     "BZERO", "BSCALE"}

\* the keys _save_fits never copies (lines 500-511)
EXCLUDED_KEYS ==
    {"SIMPLE", "BITPIX", "NAXIS", "NAXIS1", "NAXIS2", "NAXIS3", "EXTEND",
     "BZERO", "BSCALE", "BLANK"}

\* descriptive cards of the model's headers: "BADCARD" has a value for which
\* hdu.header[key] = value raises ValueError; "ASTRA_PR" is the marker of a
\* file this program wrote before
OtherKeys == {"OBJECT", "BADCARD", "ASTRA_PR"}

\* hdu.header[key] = value succeeds
ValidCard(k) == k # "BADCARD"

\* the FITS keywords that describe the data format of an image HDU
FormatKeys ==
    {"SIMPLE", "BITPIX", "NAXIS", "NAXIS1", "NAXIS2", "NAXIS3", "EXTEND",
     "BZERO", "BSCALE", "BLANK"}

\* input headers: none, all or one of the format keywords, with any of the
\* descriptive cards
Headers ==
    {x \cup y : x \in {{}, FormatKeys} \cup {{k} : k \in FormatKeys},
                y \in SUBSET OtherKeys}

Card(k, o) == [key |-> k, origin |-> o]

\* the cards fits.PrimaryHDU(output_data) writes from the array itself
HduCards(d) ==
    {Card(k, "hdu") : k \in {"SIMPLE", "BITPIX", "NAXIS", "NAXIS1", "NAXIS2", "EXTEND"}
                             \cup (IF Len(d.shape) = 3 THEN {"NAXIS3"} ELSE {})}

\* the header _save_fits writes (lines 496-522): the HDU's own cards, the
\* input's cards outside EXCLUDED_KEYS whose assignment does not raise, then
\* the marker (replacing the value of a marker card the input had) and the
\* history line
SaveFitsHeader(d, h) ==
    LET copied == {Card(k, "input") : k \in {x \in h : x \notin EXCLUDED_KEYS /\ ValidCard(x)}}
    IN  (HduCards(d) \cup (copied \ {Card("ASTRA_PR", "input")}))
        \cup {Card("ASTRA_PR", "astra"), Card("HISTORY", "astra")}

\* a dictionary entry: the key is absent, holds a value of the expected type,
\* or holds a value float() cannot convert
Absent == [k |-> "absent"]
Bad == [k |-> "bad"]
Val(v) == [k |-> "val", v |-> v]

BadCount(d) ==
    (IF d.stretchFactor = Bad THEN 1 ELSE 0) + (IF d.noiseReduction = Bad THEN 1 ELSE 0)
    + (IF d.contrast = Bad THEN 1 ELSE 0)

DictSet ==
    {d \in [targetType : {Absent, Val("galaxy")},
            stretchMethod : {Absent},
            stretchFactor : {Absent, Val(0), Bad},
            backgroundRemoval : {Absent},
            starReduction : {Absent, Val(TRUE)},
            colorCalibration : {Absent},
            noiseReduction : {Absent, Val(50), Bad},
            contrast : {Absent, Val(100), Bad}] : BadCount(d) <= MaxBadEntries}

NoDict == [targetType |-> Absent, stretchMethod |-> Absent, stretchFactor |-> Absent,
           backgroundRemoval |-> Absent, starReduction |-> Absent,
           colorCalibration |-> Absent, noiseReduction |-> Absent, contrast |-> Absent]

----------------------------------------------------------------------------
(* Results *)

NoneStr == "<None>"
EmptyDict == [empty |-> TRUE]

\* no timestamp taken yet
NoStamp == -1

\* os.path.join(output_dir, f"{base_name}_processed_{timestamp}.fits") and
\* its preview twin, for the input "img.fits" and the output directory "out"
FitsPath(ts) ==
    [dir |-> "out", stem |-> "img", kind |-> "_processed_", timestamp |-> ts,
     ext |-> ".fits"]
PreviewPath(ts) ==
    [dir |-> "out", stem |-> "img", kind |-> "_preview_", timestamp |-> ts,
     ext |-> ".png"]

\* the output paths of the run
OutputFitsPath == FitsPath(timestamp)
OutputPreviewPath == PreviewPath(timestamp)

\* ProcessingResult's default for a path it was not given
NoPath == [dir |-> "", stem |-> "", kind |-> "", timestamp |-> NoStamp, ext |-> ""]

\* no ProcessingResult yet
NoResult == [returned |-> FALSE]

\* str(e) of the exception a step raises
ErrStr(step) == "error in " \o step

\* ProcessingResult(success=True, ...) of lines 724-731
SuccessResult(t) ==
    [returned |-> TRUE, success |-> TRUE,
     output_fits_path |-> OutputFitsPath, output_preview_path |-> OutputPreviewPath,
     target_type |-> target_type, processing_params |-> ParamsToDict(params),
     processing_time |-> t, error_message |-> NoneStr]

\* a failure result that reports what the run had worked out when it failed
FailureResultWithProgress(msg, t) ==
    [returned |-> TRUE, success |-> FALSE,
     output_fits_path |-> IF fs.fits = "written" THEN OutputFitsPath ELSE NoPath,
     output_preview_path |-> NoPath,
     target_type |-> "", processing_params |-> EmptyDict,
     processing_time |-> t, error_message |-> msg]

\* ProcessingResult(success=False, error_message=str(e), processing_time=...)
FailureResult(msg, t) ==
    [returned |-> TRUE, success |-> FALSE,
     output_fits_path |-> NoPath, output_preview_path |-> NoPath,
     target_type |-> "", processing_params |-> EmptyDict,
     processing_time |-> t, error_message |-> msg]

----------------------------------------------------------------------------
(* process_image: helpers *)

Ev(step, p) == [step |-> step, progress |-> p]

\* what report_progress hands to the callback: nothing without a callback
Reported(evs) == IF cb = "none" THEN <<>> ELSE evs

\* whether a callback invocation of a segment raises (an Exception)
RaiseChoices == IF cb = "set" THEN BOOLEAN ELSE {FALSE}

\* report_progress without its try/except: the callback's exception leaves it
ReportProgressUncaught(r) == IF r THEN "propagate" ELSE "ok"

\* report_progress with a callback that raises (r) or returns: the exception
\* is caught and logged
ReportProgress(r) == IF r THEN "logged" ELSE "ok"

\* a fallback that lands on another type than UNKNOWN
ExplicitTargetTypeGalaxyFallback(t) == IF t \in TargetType THEN t ELSE "galaxy"

\* TargetType(params.target_type) with its ValueError fallback
ExplicitTargetType(t) == IF t \in TargetType THEN t ELSE "unknown"

\* the TargetType values classify_from_name can return for a name: a name of
\* KNOWN_OBJECTS has its table entry; any other name has what SIMBAD answers
\* (a mapped type) or the UNKNOWN fallback
ClassifyFromName(name) ==
    IF name = "M42" THEN {"emission_nebula"} ELSE TargetType

\* a merge that takes every user value but 0
ResolveStretchFactorUnlessZero(p, tp) ==
    IF p.stretch_factor # 0 THEN p.stretch_factor ELSE tp.stretch_factor

\* a merge that takes the user's value when it is >= 0
ResolveStretchFactorNonNegative(p, tp) ==
    IF p.stretch_factor >= 0 THEN p.stretch_factor ELSE tp.stretch_factor

\* a merge that lets the table's default switch background removal on
ResolveBackgroundRemovalWithDefault(p, tp) ==
    p.background_removal \/ tp.background_removal

\* a merge that ignores the table's default for star reduction
ResolveStarReductionUserOnly(p, tp) == p.star_reduction

\* lines 634-637
ResolveStretchFactor(p, tp) ==
    IF p.stretch_factor > 0 THEN p.stretch_factor ELSE tp.stretch_factor

\* line 638
ResolveBackgroundRemoval(p, tp) == p.background_removal

\* line 639
ResolveStarReduction(p, tp) == p.star_reduction \/ tp.star_reduction

\* a dispatch whose final else branch is the arcsinh stretch
StretchFunctionArcsinhDefault(method) ==
    CASE method = "statistical" -> "_statistical_stretch"
      [] method = "arcsinh"     -> "_arcsinh_stretch"
      [] method = "log"         -> "_log_stretch"
      [] OTHER                  -> "_arcsinh_stretch"

\* the stretch function lines 671-679 select
StretchFunction(method) ==
    CASE method = "statistical" -> "_statistical_stretch"
      [] method = "arcsinh"     -> "_arcsinh_stretch"
      [] method = "log"         -> "_log_stretch"
      [] OTHER                  -> "_statistical_stretch"

ApplyStretch(fn, d, factor) ==
    CASE fn = "_statistical_stretch" -> StatisticalStretch(d, factor)
      [] fn = "_arcsinh_stretch"     -> ArcsinhStretch(d, factor)
      [] fn = "_log_stretch"         -> LogStretch(d, factor)

\* an except clause that logs and raises again: the caller gets the exception
ExceptReraise(step, evs, fs2, logged) ==
    /\ pc' = "returned"
    /\ events' = events \o Reported(evs)
    /\ failedAt' = step
    /\ result' = NoResult
    /\ raised' = TRUE
    /\ now' = now + 1
    /\ fs' = fs2
    /\ cbLogged' = (cbLogged \/ logged)
    /\ UNCHANGED <<entry, params_dict, params, params0, object_name, cb, input,
                   data, processed, target_type, stretch_factor,
                   background_removal, star_reduction, start_time,
                   clock, timestamp, header, out_header, other, lookup>>

\* an except clause that logs and falls through to the end of the pipeline
ExceptFallsThrough(step, evs, fs2, logged) ==
    /\ pc' = "complete"
    /\ events' = events \o Reported(evs)
    /\ failedAt' = step
    /\ now' = now + 1
    /\ fs' = fs2
    /\ cbLogged' = (cbLogged \/ logged)
    /\ UNCHANGED <<entry, params_dict, params, params0, object_name, cb, input,
                   data, processed, target_type, stretch_factor,
                   background_removal, star_reduction, start_time, result, raised,
                   clock, timestamp, header, out_header, other, lookup>>

\* the except clause of process_image (lines 733-739): a failure result with
\* str(e) and the elapsed time is returned
Except(step, evs, fs2, logged) ==
    /\ pc' = "returned"
    /\ events' = events \o Reported(evs)
    /\ failedAt' = step
    /\ result' = FailureResult(ErrStr(step), now + 1 - start_time)
    /\ raised' = FALSE
    /\ now' = now + 1
    /\ fs' = fs2
    /\ cbLogged' = (cbLogged \/ logged)
    /\ UNCHANGED <<entry, params_dict, params, params0, object_name, cb, input,
                   data, processed, target_type, stretch_factor,
                   background_removal, star_reduction, start_time,
                   clock, timestamp, header, out_header, other, lookup>>

\* a segment whose first report_progress call lets the callback's exception
\* out ends in the except clause; otherwise the segment runs
Segment(r, firstEv, A) ==
    IF ReportProgress(r) = "propagate"
    THEN Except("callback", <<firstEv>>, fs, FALSE) /\ calls' = calls
    ELSE A

\* a segment that stores the effective stretch factor in the caller's object
AdvanceWritesBack(nextpc, evs, r) ==
    /\ pc' = nextpc
    /\ events' = events \o Reported(evs)
    /\ cbLogged' = (cbLogged \/ ReportProgress(r) = "logged")
    /\ now' = now + 1
    /\ params' = IF nextpc = "background" /\ params.stretch_factor <= 0
                 THEN [params EXCEPT !.stretch_factor = 15]
                 ELSE params
    /\ UNCHANGED <<entry, params_dict, params0, object_name, cb, input,
                   start_time, failedAt, result, raised, clock, other, lookup>>

\* the part of the state a successful segment always sets
Advance(nextpc, evs, r) ==
    /\ pc' = nextpc
    /\ events' = events \o Reported(evs)
    /\ cbLogged' = (cbLogged \/ ReportProgress(r) = "logged")
    /\ now' = now + 1
    /\ UNCHANGED <<entry, params_dict, params, params0, object_name, cb, input,
                   start_time, failedAt, result, raised, clock, other, lookup>>

----------------------------------------------------------------------------
(* process_image_from_dict, lines 764-782: the conversions *)

Pick(e, default) == IF e.k = "val" THEN e.v ELSE default

ParamsFromDict(d) ==
    [target_type |-> Pick(d.targetType, DefaultParams.target_type),
     stretch_method |-> Pick(d.stretchMethod, DefaultParams.stretch_method),
     stretch_factor |-> Pick(d.stretchFactor, DefaultParams.stretch_factor),
     background_removal |-> Pick(d.backgroundRemoval, DefaultParams.background_removal),
     star_reduction |-> Pick(d.starReduction, DefaultParams.star_reduction),
     color_calibration |-> Pick(d.colorCalibration, DefaultParams.color_calibration),
     noise_reduction |-> Pick(d.noiseReduction, DefaultParams.noise_reduction),
     contrast |-> Pick(d.contrast, DefaultParams.contrast)]

\* float(x) raises on a value it cannot convert
FloatRaises(d) == BadCount(d) > 0

\* every conversion succeeds: process_image is called with the params built
FromDictCall ==
    /\ pc = "from_dict"
    /\ ~FloatRaises(params_dict)
    /\ pc' = "init"
    /\ params' = ParamsFromDict(params_dict)
    /\ params0' = ParamsFromDict(params_dict)
    /\ now' = now + 1
    /\ start_time' = now + 1
    /\ UNCHANGED <<entry, params_dict, object_name, cb, input, data, processed,
                   target_type, stretch_factor, background_removal, star_reduction,
                   events, calls, fs, cbLogged, failedAt, result, raised,
                   clock, timestamp, header, out_header, other, lookup>>

\* float() raises outside any try block: the exception reaches the caller
FromDictRaise ==
    /\ pc = "from_dict"
    /\ FloatRaises(params_dict)
    /\ pc' = "returned"
    /\ raised' = TRUE
    /\ now' = now + 1
    /\ UNCHANGED <<entry, params_dict, params, params0, object_name, cb, input,
                   data, processed, target_type, stretch_factor,
                   background_removal, star_reduction, events, calls, fs,
                   start_time, cbLogged, failedAt, result, clock, timestamp,
                   header, out_header, other, lookup>>

----------------------------------------------------------------------------
(* process_image, lines 596-739, one action per segment *)

\* lines 597-606: report init, os.makedirs(exist_ok=True), output paths with
\* the timestamp time.strftime("%Y%m%d_%H%M%S") reads off the wall clock
\* an opening step that leaves the directory to be made when a file is saved
InitOkDeferred ==
    /\ pc = "init"
    /\ fs.dir # "blocked"
    /\ \E r \in RaiseChoices :
         Segment(r, Ev("init", 0),
            /\ Advance("load", <<Ev("init", 0)>>, r)
            /\ timestamp' = clock
            /\ UNCHANGED <<fs, data, processed, target_type, stretch_factor,
                           background_removal, star_reduction, calls, header,
                           out_header>>)

InitOk ==
    /\ pc = "init"
    /\ fs.dir # "blocked"
    /\ \E r \in RaiseChoices :
         Segment(r, Ev("init", 0),
            /\ Advance("load", <<Ev("init", 0)>>, r)
            /\ fs' = [fs EXCEPT !.dir = "present"]
            /\ timestamp' = clock
            /\ UNCHANGED <<data, processed, target_type, stretch_factor,
                           background_removal, star_reduction, calls, header,
                           out_header>>)

\* os.makedirs raises (the path is a file, or permission is denied)
InitFail ==
    /\ pc = "init"
    /\ fs.dir = "blocked"
    /\ \E r \in RaiseChoices :
         Segment(r, Ev("init", 0),
            /\ Except("makedirs", <<Ev("init", 0)>>, fs, ReportProgress(r) = "logged")
            /\ calls' = calls)

\* lines 608-613: report loading, _load_fits, report loaded
LoadOk ==
    /\ pc = "load"
    /\ input.readable
    /\ \E r \in RaiseChoices :
         Segment(r, Ev("loading", 5),
            /\ Advance("classify", <<Ev("loading", 5), Ev("loading", 15)>>, r)
            /\ data' = LoadFits(input.data)
            /\ header' = input.header
            /\ calls' = Append(calls, "_load_fits")
            /\ UNCHANGED <<processed, target_type, stretch_factor,
                           background_removal, star_reduction, fs, timestamp,
                           out_header>>)

\* a load whose exception is swallowed: the run goes on without a raster
LoadFailContinues ==
    /\ pc = "load"
    /\ ~input.readable
    /\ \E r \in RaiseChoices :
         Segment(r, Ev("loading", 5),
            /\ Advance("classify", <<Ev("loading", 5)>>, r)
            /\ calls' = Append(calls, "_load_fits")
            /\ UNCHANGED <<data, processed, target_type, stretch_factor,
                           background_removal, star_reduction, fs, timestamp,
                           header, out_header>>)

\* fits.open raises on a missing or unreadable file
LoadFail ==
    /\ pc = "load"
    /\ ~input.readable
    /\ \E r \in RaiseChoices :
         Segment(r, Ev("loading", 5),
            /\ Except("_load_fits", <<Ev("loading", 5)>>, fs, ReportProgress(r) = "logged")
            /\ calls' = Append(calls, "_load_fits"))

\* lines 615-647: target type, parameter merge, data.copy()
Resolve(t, evs, r, cs) ==
    /\ Advance("background", evs, r)
    /\ target_type' = t
    /\ stretch_factor' = ResolveStretchFactor(params, TARGET_PARAMS[t])
    /\ background_removal' = ResolveBackgroundRemoval(params, TARGET_PARAMS[t])
    /\ star_reduction' = ResolveStarReduction(params, TARGET_PARAMS[t])
    /\ processed' = data
    /\ calls' = cs
    /\ UNCHANGED <<data, fs, timestamp, header, out_header>>

\* target_type == "auto" and a name: the classifier answers
ClassifyAuto ==
    /\ pc = "classify"
    /\ params.target_type = "auto" /\ object_name \notin {"", "<42>"}
    /\ \E r \in RaiseChoices, t \in ClassifyFromName(object_name) :
         Segment(r, Ev("classifying", 18),
            Resolve(t, <<Ev("classifying", 18), Ev("classifying", 20)>>, r,
                    Append(calls, "classify_from_name")))

\* classify_from_name raises on a name that is no string (it has no strip())
ClassifyFail ==
    /\ pc = "classify"
    /\ params.target_type = "auto" /\ object_name = "<42>"
    /\ \E r \in RaiseChoices :
         Segment(r, Ev("classifying", 18),
            /\ Except("classify_from_name", <<Ev("classifying", 18)>>, fs,
                      ReportProgress(r) = "logged")
            /\ calls' = Append(calls, "classify_from_name"))

\* an explicit target type; a string that is no TargetType gives UNKNOWN
ClassifyExplicit ==
    /\ pc = "classify"
    /\ params.target_type # "auto"
    /\ \E r \in RaiseChoices :
         Segment(r, Ev("classifying", 18),
            Resolve(ExplicitTargetType(params.target_type),
                    <<Ev("classifying", 18), Ev("classifying", 20)>>, r, calls))

\* a classifying step that waits for a name it was not given
ClassifyNoneWaits ==
    /\ pc = "classify"
    /\ params.target_type = "auto" /\ object_name = ""
    /\ UNCHANGED vars
    /\ object_name' # ""

\* "auto" without a name: UNKNOWN, and no second classifying event
ClassifyNone ==
    /\ pc = "classify"
    /\ params.target_type = "auto" /\ object_name = ""
    /\ \E r \in RaiseChoices :
         Segment(r, Ev("classifying", 18),
            Resolve("unknown", <<Ev("classifying", 18)>>, r, calls))

\* what a filter stage leaves alone
StageFrame ==
    UNCHANGED <<data, target_type, stretch_factor, background_removal,
                star_reduction, fs, timestamp, header, out_header>>

\* a stage that runs: first report, the filter, second report
StageRun(here, next, ev1, ev2, fn, out) ==
    /\ pc = here
    /\ \E r \in RaiseChoices :
         Segment(r, ev1,
            /\ Advance(next, <<ev1, ev2>>, r)
            /\ processed' = out
            /\ calls' = Append(calls, fn)
            /\ StageFrame)

\* a stage whose filter raises: the first report was made, the second is not
StageFail(here, ev1, fn) ==
    /\ pc = here
    /\ \E r \in RaiseChoices :
         Segment(r, ev1,
            /\ Except(fn, <<ev1>>, fs, ReportProgress(r) = "logged")
            /\ calls' = Append(calls, fn))

\* a stage that is skipped: one report (or none), the raster is left alone
StageSkip(here, next, evs) ==
    /\ pc = here
    /\ \E r \in (IF evs = <<>> THEN {FALSE} ELSE RaiseChoices) :
         Segment(r, Ev(here, 0),
            /\ Advance(next, evs, r)
            /\ UNCHANGED <<processed, calls>>
            /\ StageFrame)

\* 1. lines 649-656
BackgroundRun ==
    /\ background_removal
    /\ StageRun("background", "calibration", Ev("background", 25), Ev("background", 40),
                "_remove_background", RemoveBackground(processed))

BackgroundFail ==
    /\ background_removal
    /\ StageFail("background", Ev("background", 25), "_remove_background")

BackgroundSkip ==
    /\ ~background_removal
    /\ StageSkip("background", "calibration", <<Ev("background", 40)>>)

\* 2. lines 658-665
CalibrationRun ==
    /\ params.color_calibration /\ Len(processed.shape) = 3
    /\ StageRun("calibration", "stretch", Ev("calibration", 42), Ev("calibration", 50),
                "_color_calibrate", ColorCalibrate(processed))

CalibrationFail ==
    /\ params.color_calibration /\ Len(processed.shape) = 3
    /\ StageFail("calibration", Ev("calibration", 42), "_color_calibrate")

CalibrationSkip ==
    /\ ~(params.color_calibration /\ Len(processed.shape) = 3)
    /\ StageSkip("calibration", "stretch", <<Ev("calibration", 50)>>)

\* 3. lines 667-680
StretchRun ==
    StageRun("stretch", "contrast", Ev("stretch", 52), Ev("stretch", 70),
             StretchFunction(params.stretch_method),
             ApplyStretch(StretchFunction(params.stretch_method), processed,
                          stretch_factor))

StretchFail ==
    StageFail("stretch", Ev("stretch", 52), StretchFunction(params.stretch_method))

\* 3b. lines 682-687: no report at all when the contrast step is skipped
ContrastRun ==
    /\ params.contrast > 100
    /\ StageRun("contrast", "stars", Ev("contrast", 72), Ev("contrast", 74),
                "_apply_contrast_curve", ApplyContrastCurve(processed, params.contrast))

ContrastFail ==
    /\ params.contrast > 100
    /\ StageFail("contrast", Ev("contrast", 72), "_apply_contrast_curve")

\* a skipped contrast step that still applies the curve, at the default
\* strength of _apply_contrast_curve
ContrastSkipAppliesDefault ==
    /\ ~(params.contrast > 100)
    /\ pc = "contrast"
    /\ Advance("stars", <<>>, FALSE)
    /\ processed' = ApplyContrastCurve(processed, 150)
    /\ UNCHANGED calls
    /\ StageFrame

ContrastSkip ==
    /\ ~(params.contrast > 100)
    /\ StageSkip("contrast", "stars", <<>>)

\* a star reduction placed ahead of the contrast step
StarsRunThenContrast ==
    /\ star_reduction
    /\ \E out \in ReduceStars(processed) :
         StageRun("stars", "contrast", Ev("stars", 72), Ev("stars", 80),
                  "_reduce_stars", out)

\* 4. lines 689-696
StarsRun ==
    /\ star_reduction
    /\ \E out \in ReduceStars(processed) :
         StageRun("stars", "noise", Ev("stars", 72), Ev("stars", 80),
                  "_reduce_stars", out)

StarsFail ==
    /\ star_reduction
    /\ StageFail("stars", Ev("stars", 72), "_reduce_stars")

StarsSkip ==
    /\ ~star_reduction
    /\ StageSkip("stars", "noise", <<Ev("stars", 80)>>)

\* 5. lines 698-706
NoiseRun ==
    /\ params.noise_reduction > 0
    /\ StageRun("noise", "save_fits", Ev("noise", 82), Ev("noise", 88),
                "_apply_noise_reduction",
                ApplyNoiseReduction(processed, params.noise_reduction))

NoiseFail ==
    /\ params.noise_reduction > 0
    /\ StageFail("noise", Ev("noise", 82), "_apply_noise_reduction")

NoiseSkip ==
    /\ ~(params.noise_reduction > 0)
    /\ StageSkip("noise", "save_fits", <<Ev("noise", 88)>>)

\* line 709: np.clip(processed, 0, 1)
FinalClip(d) == [d EXCEPT !.px = ClipSeq(d.px)]

\* lines 708-714: final clip, report saving, _save_fits
SaveFitsOk ==
    /\ pc = "save_fits"
    /\ \E r \in RaiseChoices :
         Segment(r, Ev("saving", 90),
            /\ Advance("save_preview", <<Ev("saving", 90)>>, r)
            /\ processed' = FinalClip(processed)
            /\ calls' = Append(calls, "_save_fits")
            /\ fs' = [fs EXCEPT !.fits = "written"]
            /\ out_header' = SaveFitsHeader(FinalClip(processed), header)
            /\ UNCHANGED <<data, target_type, stretch_factor, background_removal,
                           star_reduction, timestamp, header>>)

\* hdu.writeto raises: nothing, or a truncated file, is left at the path
SaveFitsFail ==
    /\ pc = "save_fits"
    /\ \E r \in RaiseChoices, f \in {"absent", "partial"} :
         Segment(r, Ev("saving", 90),
            /\ Except("_save_fits", <<Ev("saving", 90)>>, [fs EXCEPT !.fits = f],
                      ReportProgress(r) = "logged")
            /\ calls' = Append(calls, "_save_fits"))

\* lines 716-718: report, _save_preview
SavePreviewOk ==
    /\ pc = "save_preview"
    /\ \E r \in RaiseChoices :
         Segment(r, Ev("saving", 95),
            /\ Advance("complete", <<Ev("saving", 95)>>, r)
            /\ calls' = Append(calls, "_save_preview")
            /\ fs' = [fs EXCEPT !.preview = "written"]
            /\ UNCHANGED <<data, processed, target_type, stretch_factor,
                           background_removal, star_reduction, timestamp, header,
                           out_header>>)

\* a preview failure that is swallowed: the run goes on to report success
SavePreviewFailSwallowed ==
    /\ pc = "save_preview"
    /\ \E r \in RaiseChoices, f \in {"absent", "partial"} :
         Segment(r, Ev("saving", 95),
            /\ Advance("complete", <<Ev("saving", 95)>>, r)
            /\ calls' = Append(calls, "_save_preview")
            /\ fs' = [fs EXCEPT !.preview = f]
            /\ UNCHANGED <<data, processed, target_type, stretch_factor,
                           background_removal, star_reduction, timestamp, header,
                           out_header>>)

SavePreviewFail ==
    /\ pc = "save_preview"
    /\ \E r \in RaiseChoices, f \in {"absent", "partial"} :
         Segment(r, Ev("saving", 95),
            /\ Except("_save_preview", <<Ev("saving", 95)>>, [fs EXCEPT !.preview = f],
                      ReportProgress(r) = "logged")
            /\ calls' = Append(calls, "_save_preview"))

\* a last step that returns the success result without its report
CompleteSilent ==
    /\ pc = "complete"
    /\ pc' = "returned"
    /\ now' = now + 1
    /\ result' = SuccessResult(now + 1 - start_time)
    /\ raised' = FALSE
    /\ UNCHANGED <<entry, params_dict, params, params0, object_name, cb,
                   input, data, processed, target_type, stretch_factor,
                   background_removal, star_reduction, calls, fs,
                   start_time, failedAt, clock, timestamp, header,
                   out_header, other, lookup, events, cbLogged>>

\* lines 720-731: report complete, return the success result
Complete ==
    /\ pc = "complete"
    /\ \E r \in RaiseChoices :
         Segment(r, Ev("complete", 100),
            /\ pc' = "returned"
            /\ events' = events \o Reported(<<Ev("complete", 100)>>)
            /\ cbLogged' = (cbLogged \/ ReportProgress(r) = "logged")
            /\ now' = now + 1
            /\ result' = SuccessResult(now + 1 - start_time)
            /\ raised' = FALSE
            /\ UNCHANGED <<entry, params_dict, params, params0, object_name, cb,
                           input, data, processed, target_type, stretch_factor,
                           background_removal, star_reduction, calls, fs,
                           start_time, failedAt, clock, timestamp, header,
                           out_header, other, lookup>>)

----------------------------------------------------------------------------
(* A second run of process_image on the same input file and output        *)
(* directory, in another thread or process: the steps of it that touch    *)
(* what the two runs share, the wall clock and the output directory        *)

\* everything a step of the second run, or of the clock, leaves alone
RunFrame ==
    UNCHANGED <<pc, entry, params_dict, params, params0, object_name, cb, input,
                data, processed, target_type, stretch_factor, background_removal,
                star_reduction, events, calls, fs, now, start_time, cbLogged,
                failedAt, result, raised, timestamp, header, out_header,
                lookup>>

\* a second of wall-clock time passes; with a single run no timestamp is
\* ever compared with another and the clock is left where it is
Tick ==
    /\ other.pc # "off"
    /\ clock < MaxClock
    /\ clock' = clock + 1
    /\ UNCHANGED other
    /\ RunFrame

\* lines 603-606 in the second run: its output paths, from the same stem,
\* the same directory and the second the clock shows
OtherPaths ==
    /\ other.pc = "idle"
    /\ other' = [pc |-> "stamped", timestamp |-> clock]
    /\ UNCHANGED clock
    /\ RunFrame

\* lines 711-718 in the second run: hdu.writeto(path, overwrite=True) and
\* img.save(path) replace whatever is at its paths
OtherSave ==
    /\ other.pc = "stamped"
    /\ other' = [other EXCEPT !.pc = "saved"]
    /\ UNCHANGED clock
    /\ RunFrame

----------------------------------------------------------------------------
(* target_classify.py: classify_from_name.  A name is the sequence of its  *)
(* characters, so that stripping, upper-casing and matching are computed.  *)

DigitChars == <<"0", "1", "2", "3", "4", "5", "6", "7", "8", "9">>

\* the decimal digits of n >= 0
RECURSIVE Digits(_)
Digits(n) ==
    IF n < 10 THEN <<DigitChars[n + 1]>>
    ELSE Digits(n \div 10) \o <<DigitChars[(n % 10) + 1]>>

IsDigit(c) == \E i \in 1..10 : DigitChars[i] = c

\* str.upper
ToUpper(s) ==
    LET LowerChars == <<"a", "b", "c", "d", "e", "f", "g", "h", "i", "j", "k", "l",
                        "m", "n", "o", "p", "q", "r", "s", "t", "u", "v", "w", "x",
                        "y", "z">>
        UpperChars == <<"A", "B", "C", "D", "E", "F", "G", "H", "I", "J", "K", "L",
                        "M", "N", "O", "P", "Q", "R", "S", "T", "U", "V", "W", "X",
                        "Y", "Z">>
    IN  [k \in 1..Len(s) |->
            IF \E i \in 1..26 : LowerChars[i] = s[k]
            THEN UpperChars[CHOOSE i \in 1..26 : LowerChars[i] = s[k]]
            ELSE s[k]]

\* s without its leading characters of the set cs (a regex class, starred)
RECURSIVE DropWhile(_, _)
DropWhile(s, cs) ==
    IF s # <<>> /\ Head(s) \in cs THEN DropWhile(Tail(s), cs) ELSE s

RECURSIVE DropTrailing(_)
DropTrailing(s) ==
    IF s # <<>> /\ s[Len(s)] = " " THEN DropTrailing(SubSeq(s, 1, Len(s) - 1)) ELSE s

\* str.strip
Strip(s) == DropTrailing(DropWhile(s, {" "}))

\* str.startswith
StartsWith(s, p) == Len(s) >= Len(p) /\ SubSeq(s, 1, Len(p)) = p

\* p in s, for strings
Contains(s, p) ==
    \E i \in 1..(Len(s) - Len(p) + 1) : SubSeq(s, i, i + Len(p) - 1) = p

\* re.sub(r"^<prefix>\s*", to, s)
SubPrefix(s, prefix, to) ==
    IF StartsWith(s, prefix)
    THEN to \o DropWhile(SubSeq(s, Len(prefix) + 1, Len(s)), {" "})
    ELSE s

\* _normalize_name, lines 169-176
NormalizeName(name) ==
    SubPrefix(
      SubPrefix(
        SubPrefix(ToUpper(Strip(name)),
                  <<"M", "E", "S", "S", "I", "E", "R">>, <<"M">>),
        <<"N", "G", "C">>, <<"N", "G", "C", " ">>),
      <<"I", "C">>, <<"I", "C", " ">>)

\* KNOWN_OBJECTS, lines 108-166: <<set of keys, type>>, the keys by catalogue
KNOWN_OBJECTS ==
    LET M(n) == <<"M">> \o Digits(n)
        NGC(n) == <<"N", "G", "C", " ">> \o Digits(n)
        IC(n) == <<"I", "C", " ">> \o Digits(n)
    IN
    {<<{M(42), M(43), M(1), M(8), M(16), M(17), M(20), NGC(7000), NGC(6992),
        NGC(6960), IC(1805), IC(1848), IC(434)}, "emission_nebula">>,
     <<{M(78)}, "reflection_nebula">>,
     <<{M(27), M(57), M(76), M(97), NGC(6543), NGC(7293)}, "planetary_nebula">>,
     <<{M(31), M(32), M(33), M(51), M(81), M(82), M(101), M(104), NGC(253),
        NGC(891)}, "galaxy">>,
     <<{M(2), M(3), M(5), M(13), M(15), M(22), M(92), NGC(5139)},
       "globular_cluster">>,
     <<{M(6), M(7), M(11), M(35), M(36), M(37), M(38), M(44), M(45), M(67),
        NGC(869), NGC(884)}, "open_cluster">>}

\* re.match(r"^<prefix>\s*\d+", s, re.IGNORECASE) on an upper-cased s
MatchCatalog(s, prefix) ==
    /\ StartsWith(s, prefix)
    /\ LET r == DropWhile(SubSeq(s, Len(prefix) + 1, Len(s)), {" "})
       IN  r # <<>> /\ IsDigit(r[1])

\* re.match(r"^Sh\s*2[-\s]*\d+", s, re.IGNORECASE) on an upper-cased s
MatchSharpless(s) ==
    /\ StartsWith(s, <<"S", "H">>)
    /\ LET r == DropWhile(SubSeq(s, 3, Len(s)), {" "})
       IN  /\ r # <<>> /\ r[1] = "2"
           /\ LET q == DropWhile(Tail(r), {"-", " "})
              IN  q # <<>> /\ IsDigit(q[1])

\* KNOWN_PATTERNS, lines 92-105, in order: <<matches, type, confidence>>
KNOWN_PATTERNS(s) ==
    <<<<MatchSharpless(s), "emission_nebula", 90>>,
      <<MatchCatalog(s, <<"B">>), "star_field", 70>>,
      <<MatchCatalog(s, <<"L", "B", "N">>), "emission_nebula", 80>>,
      <<MatchCatalog(s, <<"L", "D", "N">>), "star_field", 70>>,
      <<MatchCatalog(s, <<"V", "D", "B">>), "reflection_nebula", 90>>,
      <<MatchCatalog(s, <<"A", "B", "E", "L", "L">>), "planetary_nebula", 60>>>>

\* a TargetInfo; confidence in hundredths, simbad_type <<>> for None
TargetInfo(t, name, c, st) ==
    [target_type |-> t, object_name |-> name, confidence |-> c, simbad_type |-> st]

\* None where a TargetInfo is optional
NoInfo == TargetInfo("none", <<>>, -1, <<>>)

\* _classify_from_known
ClassifyFromKnown(name) ==
    LET s  == NormalizeName(name)
        ps == KNOWN_PATTERNS(s)
    IN  IF \E e \in KNOWN_OBJECTS : s \in e[1]
        THEN TargetInfo((CHOOSE e \in KNOWN_OBJECTS : s \in e[1])[2], name, 100, <<>>)
        ELSE IF \E i \in 1..Len(ps) : ps[i][1]
        THEN LET i == CHOOSE i \in 1..Len(ps) :
                        ps[i][1] /\ \A j \in 1..(i - 1) : ~ps[j][1]
             IN  TargetInfo(ps[i][2], name, ps[i][3], <<>>)
        ELSE NoInfo

\* SIMBAD_TYPE_MAP, lines 48-88, in the order of the dictionary
SIMBAD_TYPE_MAP ==
    <<<<(<<"H", "I", "I">>), "emission_nebula">>,
      <<(<<"E", "m", "N">>), "emission_nebula">>,
      <<(<<"S", "N", "R">>), "emission_nebula">>,
      <<(<<"H", "H">>), "emission_nebula">>,
      <<(<<"S", "F", "R">>), "emission_nebula">>,
      <<(<<"R", "N", "e">>), "reflection_nebula">>,
      <<(<<"P", "N">>), "planetary_nebula">>,
      <<(<<"p", "A", "*">>), "planetary_nebula">>,
      <<(<<"G">>), "galaxy">>,
      <<(<<"G", "i", "C">>), "galaxy">>,
      <<(<<"G", "i", "G">>), "galaxy">>,
      <<(<<"G", "i", "P">>), "galaxy">>,
      <<(<<"H", "z", "G">>), "galaxy">>,
      <<(<<"A", "G", "N">>), "galaxy">>,
      <<(<<"S", "y", "1">>), "galaxy">>,
      <<(<<"S", "y", "2">>), "galaxy">>,
      <<(<<"S", "y", "*">>), "galaxy">>,
      <<(<<"Q", "S", "O">>), "galaxy">>,
      <<(<<"B", "L", "L">>), "galaxy">>,
      <<(<<"r", "G">>), "galaxy">>,
      <<(<<"L", "I", "N">>), "galaxy">>,
      <<(<<"S", "B", "G">>), "galaxy">>,
      <<(<<"b", "C", "G">>), "galaxy">>,
      <<(<<"G", "r", "G">>), "galaxy">>,
      <<(<<"B", "i", "C">>), "galaxy">>,
      <<(<<"G", "l", "C">>), "globular_cluster">>,
      <<(<<"O", "p", "C">>), "open_cluster">>,
      <<(<<"A", "s", "*">>), "open_cluster">>,
      <<(<<"C", "l", "*">>), "open_cluster">>,
      <<(<<"M", "G", "r">>), "open_cluster">>,
      <<(<<"*">>), "star_field">>,
      <<(<<"*", "*">>), "star_field">>>>

\* what simbad.query_object gives _query_simbad: no row (None, an empty
\* table or a masked OTYPE), an exception, or the OTYPE of the first row
SimbadAnswers ==
    {[kind |-> "none", otype |-> <<>>], [kind |-> "error", otype |-> <<>>]}
    \cup {[kind |-> "row", otype |-> o] :
            o \in {<<"H", "I", "I">>, <<"P", "N">>, <<"G">>, <<"G", "l", "C">>,
                   <<"*">>, <<" ", "N", "e", "b">>, <<"L", "S", "G">>,
                   <<"C", "l", "G">>}}

\* _query_simbad on the answer a of SIMBAD
QuerySimbad(name, a) ==
    IF a.kind # "row" THEN NoInfo
    ELSE
    LET o == Strip(a.otype)
        mapped == \E i \in 1..Len(SIMBAD_TYPE_MAP) : StartsWith(o, SIMBAD_TYPE_MAP[i][1])
        first == CHOOSE i \in 1..Len(SIMBAD_TYPE_MAP) :
                    /\ StartsWith(o, SIMBAD_TYPE_MAP[i][1])
                    /\ \A j \in 1..(i - 1) : ~StartsWith(o, SIMBAD_TYPE_MAP[j][1])
    IN  IF mapped THEN TargetInfo(SIMBAD_TYPE_MAP[first][2], name, 85, o)
        ELSE IF Contains(o, <<"N", "e", "b">>) \/ Contains(o, <<"H", "I", "I">>)
        THEN TargetInfo("emission_nebula", name, 70, o)
        ELSE IF Contains(o, <<"P", "N">>)
        THEN TargetInfo("planetary_nebula", name, 80, o)
        ELSE IF Contains(o, <<"G">>) /\ ~Contains(o, <<"C", "l">>)
        THEN TargetInfo("galaxy", name, 60, o)
        ELSE IF Contains(o, <<"G", "l", "C">>)
        THEN TargetInfo("globular_cluster", name, 80, o)
        ELSE IF Contains(o, <<"O", "p", "C">>) \/ Contains(o, <<"C", "l", "*">>)
        THEN TargetInfo("open_cluster", name, 80, o)
        ELSE TargetInfo("star_field", name, 30, o)

\* not object_name or not object_name.strip()
Blank(name) == Strip(name) = <<>>

\* a first test that wants more than 0.9
ConfidentAbove(info) == info # NoInfo /\ info.confidence > 90

\* result and result.confidence >= 0.9
Confident(info) == info # NoInfo /\ info.confidence >= 90

\* simbad_result and simbad_result.confidence > 0.5
Usable(info) == info # NoInfo /\ info.confidence > 50

\* the names of the model's callers, as typed
Names ==
    {<<>>, <<" ", " ">>,
     <<"M", "4", "2">>, <<" ", "m", "4", "2", " ">>,
     <<"M", "e", "s", "s", "i", "e", "r", " ", "3", "1">>,
     <<"N", "G", "C">> \o Digits(7000), <<"n", "g", "c", " ", "8", "9", "1">>,
     <<"i", "c", "4", "3", "4">>,
     <<"S", "h", "2", "-", "1", "5", "5">>, <<"v", "d", "B", " ", "1", "5", "2">>,
     <<"B", "3", "3">>, <<"L", "B", "N", " ", "7", "7", "7">>,
     <<"L", "D", "N", "1", "6", "2", "2">>, <<"A", "b", "e", "l", "l", " ", "3", "9">>,
     <<"M", "9", "9", "9">>, <<"N", "G", "C", " ", "1">>, <<"X">>,
     <<"V", "e", "g", "a">>}

\* no call of classify_from_name
NoLookup ==
    [pc |-> "off", name |-> <<>>, known |-> NoInfo, simbad |-> NoInfo,
     calls |-> <<>>, info |-> NoInfo]

\* what a step of classify_from_name leaves alone: every variable of a run
LookupFrame ==
    UNCHANGED <<pc, entry, params_dict, params, params0, object_name, cb, input,
                data, processed, target_type, stretch_factor, background_removal,
                star_reduction, events, calls, fs, now, start_time, cbLogged,
                failedAt, result, raised, clock, timestamp, header, out_header,
                other>>

\* lines 283-289: a blank name is UNKNOWN at once
LookupBlank ==
    /\ lookup.pc = "start"
    /\ Blank(lookup.name)
    /\ lookup' = [lookup EXCEPT !.pc = "returned",
                                !.info = TargetInfo("unknown", <<>>, 0, <<>>)]
    /\ LookupFrame

\* line 292: result = _classify_from_known(object_name)
LookupKnown ==
    /\ lookup.pc = "start"
    /\ ~Blank(lookup.name)
    /\ lookup' = [lookup EXCEPT !.pc = "known",
                                !.known = ClassifyFromKnown(lookup.name),
                                !.calls = Append(@, "_classify_from_known")]
    /\ LookupFrame

\* lines 293-294
LookupReturnKnown ==
    /\ lookup.pc = "known"
    /\ Confident(lookup.known)
    /\ lookup' = [lookup EXCEPT !.pc = "returned", !.info = lookup.known]
    /\ LookupFrame

\* line 297: simbad_result = _query_simbad(object_name)
LookupSimbad ==
    /\ lookup.pc = "known"
    /\ ~Confident(lookup.known)
    /\ \E a \in SimbadAnswers :
         lookup' = [lookup EXCEPT !.pc = "simbad",
                                  !.simbad = QuerySimbad(lookup.name, a),
                                  !.calls = Append(@, "_query_simbad")]
    /\ LookupFrame

\* lines 298-299
LookupReturnSimbad ==
    /\ lookup.pc = "simbad"
    /\ Usable(lookup.simbad)
    /\ lookup' = [lookup EXCEPT !.pc = "returned", !.info = lookup.simbad]
    /\ LookupFrame

\* lines 302-303
LookupReturnPattern ==
    /\ lookup.pc = "simbad"
    /\ ~Usable(lookup.simbad)
    /\ lookup.known # NoInfo
    /\ lookup' = [lookup EXCEPT !.pc = "returned", !.info = lookup.known]
    /\ LookupFrame

\* lines 306-311
LookupReturnUnknown ==
    /\ lookup.pc = "simbad"
    /\ ~Usable(lookup.simbad)
    /\ lookup.known = NoInfo
    /\ lookup' = [lookup EXCEPT !.pc = "returned",
                                !.info = TargetInfo("unknown", lookup.name, 0, <<>>)]
    /\ LookupFrame

----------------------------------------------------------------------------
(* Specifications *)

InitCommon ==
    /\ data = NoRaster
    /\ processed = NoRaster
    /\ target_type = "unknown"
    /\ stretch_factor = 0
    /\ background_removal = FALSE
    /\ star_reduction = FALSE
    /\ events = <<>>
    /\ calls = <<>>
    /\ now = 0
    /\ start_time = 0
    /\ cbLogged = FALSE
    /\ failedAt = "none"
    /\ result = NoResult
    /\ raised = FALSE
    /\ clock = 0
    /\ timestamp = NoStamp
    /\ header = {}
    /\ out_header = {}

\* no second run / a second run that has not started yet
OtherOff == [pc |-> "off", timestamp |-> NoStamp]
OtherIdle == [pc |-> "idle", timestamp |-> NoStamp]

AbsentFs == [dir |-> "absent", fits |-> "absent", preview |-> "absent"]

\* the two rasters of the orchestration runs: raw values below 0 and above 1
SampleGray == Gray(-5000, 15000)
SampleRGB == RGB(5000, 0, 15000)

\* calls of process_image that cross every stage switch with both rasters
InitStages ==
    /\ params \in {p \in ParamsSet : p.target_type = "auto" /\ p.stretch_factor # -10}
    /\ object_name \in {"", "M42"}
    /\ input \in {Readable(SampleGray), Readable(SampleRGB)}
    /\ fs = AbsentFs
    /\ other = OtherOff

\* calls that cross every target type, name, stretch factor and the two flags
\* the parameter merge reads, with the default and the logarithmic stretch;
\* the other switches are the dataclass defaults
InitResolution ==
    /\ params \in {p \in ParamsSet :
                     /\ p.stretch_method \in {DefaultParams.stretch_method, "log"}
                     /\ p.color_calibration = DefaultParams.color_calibration
                     /\ p.noise_reduction = DefaultParams.noise_reduction
                     /\ p.contrast = DefaultParams.contrast}
    /\ object_name \in ObjectNames
    /\ input = Readable(SampleGray)
    /\ fs = AbsentFs
    /\ other = OtherOff

\* calls with default parameters on every state of the input file and of the
\* output directory
InitFiles ==
    /\ params = DefaultParams
    /\ object_name = ""
    /\ input \in {Unreadable, Readable(SampleGray)}
    /\ fs \in [dir : {"absent", "present", "blocked"}, fits : {"absent"},
               preview : {"absent"}]
    /\ other = OtherOff

\* a call with default parameters while a second call of process_image on
\* the same input file and output directory is about to start
InitTwoRuns ==
    /\ params = DefaultParams
    /\ object_name = ""
    /\ input = Readable(SampleGray)
    /\ fs = AbsentFs
    /\ other = OtherIdle

\* a call with default parameters on a file with each header of Headers
InitHeaders ==
    /\ params = DefaultParams
    /\ object_name = ""
    /\ input \in {[Readable(d) EXCEPT !.header = h] :
                    d \in {SampleGray, SampleRGB}, h \in Headers}
    /\ fs = AbsentFs
    /\ other = OtherOff

\* calls on a file of each shape of ContainerShapes, with the stages off
\* that read the raster by rows, columns or channels
InitLayouts ==
    /\ params = [DefaultParams EXCEPT !.background_removal = FALSE,
                                      !.color_calibration = FALSE]
    /\ object_name = ""
    /\ input \in {Container(s) : s \in ContainerShapes}
    /\ fs = AbsentFs
    /\ other = OtherOff

\* a call of process_image(input, output_dir, params, object_name, callback)
InitDirect ==
    /\ lookup = NoLookup
    /\ entry = "process_image"
    /\ pc = "init"
    /\ params_dict = NoDict
    /\ cb \in {"none", "set"}
    /\ (InitStages \/ InitResolution \/ InitFiles \/ InitTwoRuns \/ InitHeaders
        \/ InitLayouts)
    /\ params0 = params

\* a call of process_image_from_dict(input, output_dir, params_dict, ...)
InitFromDict ==
    /\ lookup = NoLookup
    /\ entry = "from_dict"
    /\ pc = "from_dict"
    /\ params_dict \in DictSet
    /\ params = DefaultParams
    /\ params0 = DefaultParams
    /\ object_name \in {"", "M42"}
    /\ cb \in {"none", "set"}
    /\ input \in {Unreadable, Readable(SampleGray)}
    /\ fs = AbsentFs
    /\ other = OtherOff

Init == InitCommon /\ (InitDirect \/ InitFromDict)

\* calls that take every branch of the run: the stage switches all on or all
\* off, every stretch method, a resolved and an explicit target type
InitBranches ==
    /\ params \in {p \in ParamsSet :
                     /\ p.target_type \in {"auto", "galaxy"}
                     /\ p.stretch_factor = 0
                     /\ p.star_reduction = p.background_removal
                     /\ p.color_calibration = p.background_removal
                     /\ p.noise_reduction = (IF p.background_removal THEN 50 ELSE 0)
                     /\ p.contrast = (IF p.background_removal THEN 130 ELSE 100)}
    /\ object_name \in {"", "M42", "<42>"}
    /\ input = Readable(SampleRGB)
    /\ fs = AbsentFs
    /\ other = OtherOff

\* the started runs of the termination check: every branch, every state of
\* the files, a concurrent second run, and the dictionary entry point
InitRuns ==
    /\ InitCommon
    /\ \/ /\ lookup = NoLookup
          /\ entry = "process_image"
          /\ pc = "init"
          /\ params_dict = NoDict
          /\ cb \in {"none", "set"}
          /\ (InitBranches \/ InitFiles \/ InitTwoRuns)
          /\ params0 = params
       \/ /\ InitFromDict
          /\ object_name = ""
          /\ input = Unreadable

\* the steps of the run itself
RunNext ==
    \/ FromDictCall \/ FromDictRaise
    \/ InitOk \/ InitFail
    \/ LoadOk \/ LoadFail
    \/ ClassifyAuto \/ ClassifyFail \/ ClassifyExplicit \/ ClassifyNone
    \/ BackgroundRun \/ BackgroundFail \/ BackgroundSkip
    \/ CalibrationRun \/ CalibrationFail \/ CalibrationSkip
    \/ StretchRun \/ StretchFail
    \/ ContrastRun \/ ContrastFail \/ ContrastSkip
    \/ StarsRun \/ StarsFail \/ StarsSkip
    \/ NoiseRun \/ NoiseFail \/ NoiseSkip
    \/ SaveFitsOk \/ SaveFitsFail
    \/ SavePreviewOk \/ SavePreviewFail
    \/ Complete

Next == RunNext \/ Tick \/ OtherPaths \/ OtherSave

Spec == Init /\ [][Next]_vars

\* the run is sequential code in which every stage call and every callback
\* call returns or raises: a step of the run that can be taken is taken
FairSpec == InitRuns /\ [][Next]_vars /\ WF_vars(RunNext)

\* calls of process_image that cross every stage switch with every raster of
\* GrayRasters and RGBRasters, without a callback
InitPixels ==
    /\ InitCommon
    /\ lookup = NoLookup
    /\ entry = "process_image"
    /\ pc = "init"
    /\ params_dict = NoDict
    /\ cb = "none"
    /\ params \in {p \in ParamsSet : /\ p.target_type = "auto"
                                     /\ p.stretch_factor = 0
                                     /\ p.contrast >= 100}
    /\ object_name = ""
    /\ input \in {Readable(d) : d \in GrayRasters \cup RGBRasters}
    /\ fs = AbsentFs
    /\ other = OtherOff
    /\ params0 = params

\* the runs of Spec and the runs over every raster
SpecPixels == (Init \/ InitPixels) /\ [][Next]_vars

----------------------------------------------------------------------------
(* The calls of classify_from_name *)

\* a call of classify_from_name(object_name) with each name of Names, outside
\* any run of process_image
InitLookup ==
    /\ InitCommon
    /\ entry = "classify_from_name"
    /\ pc = "returned"
    /\ params_dict = NoDict
    /\ params = DefaultParams
    /\ params0 = DefaultParams
    /\ object_name = ""
    /\ cb = "none"
    /\ input = Unreadable
    /\ fs = AbsentFs
    /\ other = OtherOff
    /\ lookup \in {[NoLookup EXCEPT !.pc = "start", !.name = n] : n \in Names}

NextLookup ==
    \/ LookupBlank \/ LookupKnown \/ LookupReturnKnown \/ LookupSimbad
    \/ LookupReturnSimbad \/ LookupReturnPattern \/ LookupReturnUnknown

SpecLookup == InitLookup /\ [][NextLookup]_vars

----------------------------------------------------------------------------
(* Properties of process_image and process_image_from_dict *)

Succeeded == pc = "returned" /\ result.returned /\ result.success
Failed    == pc = "returned" /\ failedAt # "none"

IsPrefix(s, t) == Len(s) <= Len(t) /\ \A i \in 1..Len(s) : s[i] = t[i]

\* the progress events of a run that reaches the end, read off the resolved
\* switches of the state
FullEvents ==
    <<Ev("init", 0), Ev("loading", 5), Ev("loading", 15), Ev("classifying", 18)>>
    \o (IF params.target_type = "auto" /\ object_name = ""
        THEN <<>> ELSE <<Ev("classifying", 20)>>)
    \o (IF background_removal THEN <<Ev("background", 25)>> ELSE <<>>)
    \o <<Ev("background", 40)>>
    \o (IF params.color_calibration /\ Len(data.shape) = 3
        THEN <<Ev("calibration", 42)>> ELSE <<>>)
    \o <<Ev("calibration", 50), Ev("stretch", 52), Ev("stretch", 70)>>
    \o (IF params.contrast > 100
        THEN <<Ev("contrast", 72), Ev("contrast", 74)>> ELSE <<>>)
    \o (IF star_reduction THEN <<Ev("stars", 72)>> ELSE <<>>)
    \o <<Ev("stars", 80)>>
    \o (IF params.noise_reduction > 0 THEN <<Ev("noise", 82)>> ELSE <<>>)
    \o <<Ev("noise", 88), Ev("saving", 90), Ev("saving", 95), Ev("complete", 100)>>

\* the progress event that opens the segment in which a step fails
OpeningEvent(step) ==
    CASE step = "makedirs"               -> Ev("init", 0)
      [] step = "_load_fits"             -> Ev("loading", 5)
      [] step = "classify_from_name"     -> Ev("classifying", 18)
      [] step = "_remove_background"     -> Ev("background", 25)
      [] step = "_color_calibrate"       -> Ev("calibration", 42)
      [] step = "_apply_contrast_curve"  -> Ev("contrast", 72)
      [] step = "_reduce_stars"          -> Ev("stars", 72)
      [] step = "_apply_noise_reduction" -> Ev("noise", 82)
      [] step = "_save_fits"             -> Ev("saving", 90)
      [] step = "_save_preview"          -> Ev("saving", 95)
      [] OTHER                           -> Ev("stretch", 52)

\* the steps after the star-reduction switch and after the background switch
AfterStars ==
    {"_reduce_stars", "_apply_noise_reduction", "_save_fits", "_save_preview"}
AfterBackground ==
    {"_remove_background", "_color_calibrate", "_statistical_stretch",
     "_arcsinh_stretch", "_log_stretch", "_apply_contrast_curve"} \cup AfterStars

PastStars ==
    \/ pc \in {"noise", "save_fits", "save_preview", "complete"}
    \/ Succeeded
    \/ (Failed /\ failedAt \in AfterStars \ {"_reduce_stars"})
PastBackground ==
    \/ pc \in {"calibration", "stretch", "contrast", "stars", "noise",
               "save_fits", "save_preview", "complete"}
    \/ Succeeded
    \/ (Failed /\ failedAt \in AfterBackground \ {"_remove_background"})
PastStretch ==
    \/ pc \in {"contrast", "stars", "noise", "save_fits", "save_preview", "complete"}
    \/ Succeeded
    \/ (Failed /\ failedAt \in {"_apply_contrast_curve"} \cup AfterStars)

InSeq(x, s) == \E i \in 1..Len(s) : s[i] = x

\* C1: in every successful run with a callback the progress values delivered
\* are non-decreasing in the order delivered, and the last one is 1.0
C1_ProgressNonDecreasing ==
    (Succeeded /\ cb = "set") =>
        /\ \A i \in 1..(Len(events) - 1) : events[i].progress <= events[i + 1].progress
        /\ events[Len(events)].progress = 100

\* C2: every pixel of the raster written to the FITS file lies in [0, 1] and
\* is no NaN, whatever finite raster was loaded and whatever valid parameters
\* were given
C2_SavedRasterInUnitRange ==
    (/\ fs.fits = "written"
     /\ params0.stretch_method \in {"statistical", "arcsinh", "log"}
     /\ params0.target_type \in TargetType \cup {"auto"}) =>
        \A k \in 1..Len(processed.px) :
            processed.px[k] # NaN /\ 0 <= processed.px[k] /\ processed.px[k] <= One

C4_FromDictNeverRaises ==
    (entry = "from_dict") => ~raised

\* C5: a callback that raises never changes the run: whether or not the
\* callback raised, no run fails because of the callback, a run fails only
\* where a step failed, and a run without a failing step delivers every event
\* up to "complete" and succeeds
C5_CallbackNeverChangesRun ==
    (pc = "returned" /\ entry = "process_image" /\ cb = "set") =>
        /\ failedAt # "callback"
        /\ result.returned
        /\ (result.success <=> failedAt = "none")
        /\ (failedAt = "none" =>
              /\ events = FullEvents
              /\ fs.fits = "written" /\ fs.preview = "written"
              /\ result.target_type = target_type
              /\ result.output_fits_path = OutputFitsPath
              /\ result.output_preview_path = OutputPreviewPath)
        /\ (failedAt # "none" =>
              /\ IsPrefix(events, FullEvents)
              /\ events[Len(events)] = OpeningEvent(failedAt))

C5_Witness ==
    /\ Succeeded
    /\ cbLogged
    /\ events = FullEvents
    /\ InSeq("_reduce_stars", calls)

\* C6: when a step fails the run halts there: the failing step is the last
\* one called, the last event is the one that opened its segment (never
\* "complete"), no file of a later step is written and the result is a failure
C6_FailureHalts ==
    Failed =>
        /\ result.returned /\ ~result.success
        /\ (failedAt = "makedirs" => calls = <<>>)
        /\ (failedAt # "makedirs" => calls # <<>> /\ calls[Len(calls)] = failedAt)
        /\ ~InSeq(Ev("complete", 100), events)
        /\ (cb = "set" => events # <<>> /\ events[Len(events)] = OpeningEvent(failedAt))
        /\ fs.preview # "written"
        /\ (failedAt # "_save_preview" => fs.preview = "absent" /\ fs.fits # "written")
        /\ (failedAt \notin {"_save_fits", "_save_preview"} => fs.fits = "absent")

C6_Witness ==
    /\ Failed
    /\ failedAt \in {"_statistical_stretch", "_arcsinh_stretch", "_log_stretch"}
    /\ cb = "set"
    /\ events[Len(events)] = Ev("stretch", 52)
    /\ fs.fits = "absent"

\* C7: the parameters echoed in a success result are the resolved ones: the
\* stretch factor and the star-reduction flag the pipeline worked with
C7_EchoedParamsAreResolved ==
    Succeeded =>
        /\ result.processing_params.stretchFactor = stretch_factor
        /\ result.processing_params.starReduction = star_reduction

\* C8: the stretch factor the stretch step works with is the user's value when
\* that is > 0, and the default of the target type's table entry otherwise
C8_EffectiveStretchFactor ==
    PastStretch =>
        /\ (params0.stretch_factor > 0 => stretch_factor = params0.stretch_factor)
        /\ (params0.stretch_factor <= 0 =>
              stretch_factor = TARGET_PARAMS[target_type].stretch_factor)
        /\ (params0.stretch_factor <= 0 /\ target_type = "galaxy" => stretch_factor = 12)
        /\ (params0.stretch_factor <= 0 /\ target_type = "star_field" => stretch_factor = 5)
        /\ stretch_factor > 0

C8_Witness ==
    /\ pc = "contrast"
    /\ params0.stretch_factor = 0
    /\ target_type = "galaxy"
    /\ stretch_factor = 12

\* C9: the star-reduction step runs exactly when the user's flag is on or the
\* target type's table entry switches it on (only emission nebulae do)
C9_StarReductionRunsIff ==
    PastStars =>
        /\ InSeq("_reduce_stars", calls)
             <=> (params0.star_reduction \/ TARGET_PARAMS[target_type].star_reduction)
        /\ (target_type = "emission_nebula" => InSeq("_reduce_stars", calls))
        /\ (target_type # "emission_nebula" =>
              (InSeq("_reduce_stars", calls) <=> params0.star_reduction))

C9_Witness ==
    /\ pc = "noise"
    /\ ~params0.star_reduction
    /\ target_type = "emission_nebula"
    /\ InSeq("_reduce_stars", calls)

\* C10: the background-removal step runs exactly when the user's flag is on;
\* the table's default for the target type plays no part
C10_BackgroundRemovalRunsIff ==
    PastBackground =>
        (InSeq("_remove_background", calls) <=> params0.background_removal)

C10_Witness ==
    /\ pc = "calibration"
    /\ ~params0.background_removal
    /\ TARGET_PARAMS[target_type].background_removal
    /\ ~InSeq("_remove_background", calls)

\* the place of a called function, and of a step of the run, in the order
\* load, target type and parameters, background removal, color calibration,
\* stretch, contrast, star reduction, noise reduction, clip and save raster,
\* save preview, result
CallRank(fn) ==
    CASE fn = "_load_fits"             -> 2
      [] fn = "classify_from_name"     -> 3
      [] fn = "_remove_background"     -> 4
      [] fn = "_color_calibrate"       -> 5
      [] fn = "_apply_contrast_curve"  -> 7
      [] fn = "_reduce_stars"          -> 8
      [] fn = "_apply_noise_reduction" -> 9
      [] fn = "_save_fits"             -> 10
      [] fn = "_save_preview"          -> 11
      [] OTHER                         -> 6

StepRank(p) ==
    CASE p = "from_dict"    -> 0
      [] p = "init"         -> 1
      [] p = "load"         -> 2
      [] p = "classify"     -> 3
      [] p = "background"   -> 4
      [] p = "calibration"  -> 5
      [] p = "stretch"      -> 6
      [] p = "contrast"     -> 7
      [] p = "stars"        -> 8
      [] p = "noise"        -> 9
      [] p = "save_fits"    -> 10
      [] p = "save_preview" -> 11
      [] p = "complete"     -> 12
      [] OTHER              -> 13

\* C11: the stages run in the fixed order: every step of a run moves to a
\* later place of the order, a function is called only in its own place, the
\* parameters are resolved in the classifying step and the raster is clipped
\* in the step that saves it, so no function is called before one that
\* precedes it and none is called twice
C11_FixedStageOrder ==
    /\ [](\A i \in 1..Len(calls) : \A j \in 1..Len(calls) :
            i < j => CallRank(calls[i]) < CallRank(calls[j]))
    /\ [][/\ (pc' # pc => StepRank(pc') > StepRank(pc))
          /\ (pc' = pc => calls' = calls /\ processed' = processed)
          /\ (calls' # calls =>
                /\ Len(calls') = Len(calls) + 1
                /\ IsPrefix(calls, calls')
                /\ CallRank(calls'[Len(calls')]) = StepRank(pc))
          /\ (stretch_factor' # stretch_factor => pc = "classify")
          /\ (processed' # processed =>
                pc \in {"classify", "background", "calibration", "stretch",
                        "contrast", "stars", "noise", "save_fits"})]_vars

C11_Witness ==
    /\ Succeeded
    /\ calls = <<"_load_fits", "classify_from_name", "_remove_background",
                 "_color_calibrate", "_statistical_stretch",
                 "_apply_contrast_curve", "_reduce_stars",
                 "_apply_noise_reduction", "_save_fits", "_save_preview">>

\* the states a callback is told of, in their order
ProgressStates ==
    <<"init", "loading", "classifying", "background", "calibration", "stretch",
      "contrast", "stars", "noise", "saving", "complete">>

StateRank(s) == CHOOSE i \in 1..Len(ProgressStates) : ProgressStates[i] = s

\* C12: in every successful run with a callback the reported stage names
\* follow the order init, loading, classifying, background, calibration,
\* stretch, contrast, stars, noise, saving, saving, complete, and every one
\* of them is reported at least once (saving twice), also when its optional
\* stage is skipped
C12_EveryStateReportedInOrder ==
    (Succeeded /\ cb = "set") =>
        /\ \A i \in 1..(Len(events) - 1) :
              StateRank(events[i].step) <= StateRank(events[i + 1].step)
        /\ \A k \in 1..Len(ProgressStates) :
              \E i \in 1..Len(events) : events[i].step = ProgressStates[k]
        /\ \E i \in 1..(Len(events) - 1) :
              events[i].step = "saving" /\ events[i + 1].step = "saving"

StretchFunctions == {"_statistical_stretch", "_arcsinh_stretch", "_log_stretch"}

\* the algorithm each method string stands for
StretchOf(method) ==
    IF method = "arcsinh" THEN "_arcsinh_stretch"
    ELSE IF method = "log" THEN "_log_stretch"
    ELSE "_statistical_stretch"

\* C13: exactly one stretch algorithm is applied per run: the one the method
\* names, and the statistical one for every other method string; the raster
\* after the stretch step is that algorithm's output, and a run with an
\* unrecognised method can only fail where the statistical stretch fails
C13_ExactlyOneStretch ==
    /\ [](PastStretch =>
            /\ \E i \in 1..Len(calls) :
                 /\ calls[i] = StretchOf(params0.stretch_method)
                 /\ \A j \in 1..Len(calls) : calls[j] \in StretchFunctions => j = i)
    /\ [](Failed =>
            /\ failedAt \notin {"stretch", "bogus"}
            /\ (failedAt \in StretchFunctions =>
                  failedAt = StretchOf(params0.stretch_method)))
    /\ [][(pc = "stretch" /\ pc' = "contrast") =>
            processed' =
              (IF params0.stretch_method = "arcsinh"
               THEN ArcsinhStretch(processed, stretch_factor)
               ELSE IF params0.stretch_method = "log"
               THEN LogStretch(processed, stretch_factor)
               ELSE StatisticalStretch(processed, stretch_factor))]_vars

C13_Witness ==
    /\ Succeeded
    /\ params0.stretch_method = "bogus"
    /\ InSeq("_statistical_stretch", calls)
    /\ ~InSeq("_arcsinh_stretch", calls) /\ ~InSeq("_log_stretch", calls)

\* the classifier is asked: target_type is "auto" and a name is given
ClassifierAsked == params0.target_type = "auto" /\ object_name # ""

PastClassify ==
    \/ StepRank(pc) \in 4..12
    \/ Succeeded
    \/ (Failed /\ failedAt \notin {"makedirs", "_load_fits"})

\* C14: the classifier is consulted exactly when target_type is "auto" and a
\* name is given, and its answer is then the type of the parameter defaults
\* and of the result; "auto" without a name gives unknown; an explicit type
\* is used as given, or unknown when it is no recognised type, and the
\* classifier is not consulted
C14_TargetTypeResolution ==
    /\ [](PastClassify => (InSeq("classify_from_name", calls) <=> ClassifierAsked))
    /\ [][(pc = "classify" /\ pc' = "background") =>
            /\ (ClassifierAsked =>
                  /\ target_type' \in ClassifyFromName(object_name)
                  /\ (object_name = "M42" => target_type' = "emission_nebula"))
            /\ (params0.target_type = "auto" /\ object_name = "" =>
                  target_type' = "unknown")
            /\ (params0.target_type \in TargetType =>
                  target_type' = params0.target_type)
            /\ (params0.target_type \notin TargetType \cup {"auto"} =>
                  target_type' = "unknown")
            /\ star_reduction' =
                 (params0.star_reduction \/ TARGET_PARAMS[target_type'].star_reduction)
            /\ (params0.stretch_factor <= 0 =>
                  stretch_factor' = TARGET_PARAMS[target_type'].stretch_factor)]_vars
    /\ [][pc # "classify" => target_type' = target_type]_vars
    /\ [](Succeeded => result.target_type = target_type)

C14_Witness ==
    /\ Succeeded
    /\ params0.target_type = "auto" /\ object_name = "M42"
    /\ InSeq("classify_from_name", calls)
    /\ result.target_type = "emission_nebula"
    /\ star_reduction /\ ~params0.star_reduction

\* the second run has resolved its output paths
OtherResolved == other.pc \in {"stamped", "saved"}

\* C15: two runs on the same input file and output directory, concurrent or
\* one after the other, never resolve to the same raster path or the same
\* preview path, and neither writes over a file of the other
C15_RunsNeverSharePaths ==
    (timestamp # NoStamp /\ OtherResolved) =>
        /\ OutputFitsPath # FitsPath(other.timestamp)
        /\ OutputPreviewPath # PreviewPath(other.timestamp)
        /\ ~(/\ other.pc = "saved"
             /\ fs.fits = "written"
             /\ OutputFitsPath = FitsPath(other.timestamp))

\* C16: the saved header holds no card copied from the input under a key of
\* the excluded set (SIMPLE, BITPIX, NAXIS, NAXIS1, NAXIS2, NAXIS3, EXTEND,
\* BZERO, BSCALE, BLANK), holds the key of every other input card whose
\* value the header accepts, and always holds the two provenance cards
C16_SavedHeader ==
    (fs.fits = "written") =>
        /\ \A k \in {"SIMPLE", "BITPIX", "NAXIS", "NAXIS1", "NAXIS2", "NAXIS3",
                     "EXTEND", "BZERO", "BSCALE", "BLANK"} :
              Card(k, "input") \notin out_header
        /\ \A k \in {"BZERO", "BSCALE", "BLANK"} :
              \A c \in out_header : c.key # k
        /\ \A k \in header :
              (k \in {"OBJECT", "ASTRA_PR"}) => \E c \in out_header : c.key = k
        /\ (("OBJECT" \in header) => Card("OBJECT", "input") \in out_header)
        /\ Card("ASTRA_PR", "astra") \in out_header
        /\ Card("HISTORY", "astra") \in out_header

C16_Witness ==
    /\ fs.fits = "written"
    /\ header = FormatKeys \cup {"OBJECT", "BADCARD"}
    /\ Card("OBJECT", "input") \in out_header
    /\ Card("HISTORY", "astra") \in out_header
    /\ \A c \in out_header : c.key \notin {"BLANK", "BADCARD"}

\* C17: with a missing or unreadable input file no processing stage ever
\* runs, neither output file is written, and process_image returns a
\* failure result
C17_UnreadableInputAborts ==
    (~input.readable) =>
        /\ StepRank(pc) \notin 3..12
        /\ \A i \in 1..Len(calls) : calls[i] = "_load_fits"
        /\ fs.fits = "absent" /\ fs.preview = "absent"
        /\ out_header = {}
        /\ (pc = "returned" /\ ~raised =>
              /\ result.returned /\ ~result.success
              /\ failedAt \in {"_load_fits", "makedirs"}
              /\ result.output_fits_path = NoPath
              /\ result.output_preview_path = NoPath)

C17_Witness ==
    /\ ~input.readable
    /\ Failed
    /\ failedAt = "_load_fits"
    /\ calls = <<"_load_fits">>
    /\ result.error_message = "error in _load_fits"

IsConstant(d) == \A k \in 1..Len(d.px) : d.px[k] = d.px[1]

\* C18: on every constant-valued raster the statistical stretch takes the
\* flat-image branch: the raster comes back clipped to [0, 1] when its value
\* is <= 1 and as all ones (divided by its maximum) otherwise; no percentile
\* rescale and no gamma step are applied
C18_FlatRasterStretch ==
    [][(/\ pc = "stretch" /\ pc' = "contrast"
        /\ params0.stretch_method \notin {"arcsinh", "log"}
        /\ IsConstant(processed)) =>
           /\ StatBranch(processed) = "flat"
           /\ processed'.shape = processed.shape
           /\ \A k \in 1..Len(processed.px) :
                processed'.px[k] =
                  (IF processed.px[1] > One THEN One
                   ELSE IF processed.px[1] < 0 THEN 0
                   ELSE processed.px[1])]_vars

C18_Witness ==
    /\ pc = "contrast"
    /\ calls = <<"_load_fits", "_statistical_stretch">>
    /\ data = Gray(15000, 15000)
    /\ processed = Gray(One, One)

\* C19: with contrast strength <= 1.0 the contrast step leaves the raster as
\* the stretch step left it: every pixel keeps its value, and the run moves
\* on to the star-reduction step
C19_ContrastNoOp ==
    [][(pc = "contrast" /\ params0.contrast <= 100) =>
          /\ pc' \in {"contrast", "stars"}
          /\ processed' = processed]_vars

C19_Witness ==
    /\ pc = "stars"
    /\ params0.contrast = 100
    /\ calls = <<"_load_fits", "_arcsinh_stretch">>
    /\ processed = ArcsinhStretch(data, stretch_factor)
    /\ \E k \in 1..Len(processed.px) : 0 < processed.px[k] /\ processed.px[k] < One

\* C20: whenever process_image returns success = true, the run has written
\* the output raster and the preview completely, at the paths the result
\* names; both lie in the output directory and are named
\* {stem}_processed_{timestamp}.fits and {stem}_preview_{timestamp}.png with
\* the stem of the input file and one timestamp
C20_SuccessMeansWritten ==
    Succeeded =>
        /\ fs.dir = "present"
        /\ fs.fits = "written" /\ fs.preview = "written"
        /\ InSeq("_save_fits", calls) /\ InSeq("_save_preview", calls)
        /\ timestamp # NoStamp
        /\ result.output_fits_path =
             [dir |-> "out", stem |-> "img", kind |-> "_processed_",
              timestamp |-> timestamp, ext |-> ".fits"]
        /\ result.output_preview_path =
             [dir |-> "out", stem |-> "img", kind |-> "_preview_",
              timestamp |-> timestamp, ext |-> ".png"]
        /\ result.output_fits_path.stem = result.output_preview_path.stem
        /\ result.output_fits_path.timestamp = result.output_preview_path.timestamp

C20_Witness ==
    /\ Succeeded
    /\ clock = 1
    /\ result.output_fits_path = FitsPath(1)
    /\ result.output_preview_path = PreviewPath(1)
    /\ fs.fits = "written" /\ fs.preview = "written"

\* the run has loaded its input
Loaded == InSeq("_load_fits", calls) /\ ~(Failed /\ failedAt = "_load_fits")

\* C21: for a file holding 2-D data, channel-first data (leading axis 1, 3
\* or 4) or channel-last data, load returns a raster in canonical layout: a
\* leading channel axis is moved to the end, a singleton channel axis is
\* squeezed away, and the shape is (H, W) or (H, W, C) with C in {1, 3}
C21_CanonicalLayout ==
    Loaded =>
        /\ Len(data.shape) \in {2, 3}
        /\ (Len(data.shape) = 3 => data.shape[3] \in {1, 3})
        /\ (Len(input.data.shape) = 2 => data = input.data)
        /\ (Len(input.data.shape) = 3 /\ input.data.shape[1] \in {3, 4} =>
              data.shape = <<input.data.shape[2], input.data.shape[3],
                             input.data.shape[1]>>)
        /\ (Len(input.data.shape) = 3 /\ input.data.shape[1] = 1 =>
              data.shape = <<input.data.shape[2], input.data.shape[3]>>)
        /\ (Len(input.data.shape) = 3 /\ input.data.shape[1] \notin {1, 3, 4} =>
              IF input.data.shape[3] = 1
              THEN data.shape = <<input.data.shape[1], input.data.shape[2]>>
              ELSE data = input.data)

\* the steps that hand the raster to a filter stage or to the final clip
FilterSteps ==
    {"background", "calibration", "stretch", "contrast", "stars", "noise", "save_fits"}

\* C22: every filter stage and the final clip return a raster of the shape
\* and channel count they were given: the shape and the number of pixels
\* never change after load, and the saved raster has the shape load returned
C22_ShapePreserved ==
    /\ [][(pc \in FilterSteps) =>
            (/\ processed'.shape = processed.shape
             /\ Len(processed'.px) = Len(processed.px))]_vars
    /\ []((StepRank(pc) \in 4..12 \/ Succeeded) =>
            (/\ processed.shape = data.shape
             /\ Len(processed.px) = Len(data.px)))

C22_Witness ==
    /\ Succeeded
    /\ data.shape = <<1, 1, 3>>
    /\ processed.shape = <<1, 1, 3>>
    /\ InSeq("_remove_background", calls) /\ InSeq("_color_calibrate", calls)
    /\ InSeq("_apply_contrast_curve", calls) /\ InSeq("_reduce_stars", calls)
    /\ InSeq("_apply_noise_reduction", calls)

\* C23: every started run eventually returns, with exactly one
\* ProcessingResult that is a success or a failure and is never replaced;
\* there is no state in which the run can neither advance nor return
C23_RunReturns ==
    /\ <>(pc = "returned")
    /\ [](pc = "returned" /\ ~raised =>
            result.returned /\ (result.success <=> failedAt = "none"))
    /\ [](pc # "returned" => result = NoResult)
    /\ [][pc = "returned" => (pc' = "returned" /\ result' = result)]_vars

C23_Witness ==
    /\ Failed
    /\ failedAt = "_apply_noise_reduction"
    /\ result.returned
    /\ now = result.processing_time + start_time

\* twice the median of the raster rescaled between its black and white points
RescaledMedian2(d) == Median2(Rescaled(d))

\* the statistical stretch is about to run on a raster that is not flat
NonDegenerate ==
    /\ pc = "stretch"
    /\ StretchOf(params0.stretch_method) = "_statistical_stretch"
    /\ BlackWhite(processed)[2] > BlackWhite(processed)[1]

\* C24: in the non-degenerate statistical stretch the gamma step is applied
\* exactly when the median of the rescaled raster is strictly inside
\* (0.001, 0.999); the exponent then lies in [0.2, 2.0]; with the median at
\* an extreme the rescaled, clipped raster is the result
C24_GammaStep ==
    [][(NonDegenerate /\ pc' = "contrast") =>
         (LET str == Rescaled(processed)
              m2  == RescaledMedian2(processed)
              g   == Gamma(stretch_factor, m2)
          IN  /\ processed'.shape = processed.shape
              /\ (2 * 10 < m2 /\ m2 < 2 * 9990) =>
                    /\ g >= 20 /\ g <= 200
                    /\ \A k \in 1..Len(str) : processed'.px[k] = Power(str[k], g)
              /\ ~(2 * 10 < m2 /\ m2 < 2 * 9990) =>
                    /\ processed'.px = str
                    /\ \A k \in 1..Len(str) : str[k] >= 0 /\ str[k] <= One)]_vars

\* a stretched raster whose rescaled median was 0: no gamma step was applied
C24_Witness ==
    /\ pc = "contrast"
    /\ calls = <<"_load_fits", "_statistical_stretch">>
    /\ data = RGB(-5000, -5000, 15000)
    /\ RescaledMedian2(data) = 0
    /\ processed = RGB(0, 0, One)

\* the answer of a finished call of classify_from_name
Answered == lookup.pc = "returned"

\* C25: classify_from_name follows its strategy.  A blank name is UNKNOWN
\* with no lookup at all.  For any other name: a known-object or pattern
\* match of confidence >= 0.9 is returned and SIMBAD is not queried; else the
\* SIMBAD result when its confidence is > 0.5; else the pattern match of lower
\* confidence, when there is one; else UNKNOWN with confidence 0
C25_ClassifyStrategy ==
    Answered =>
      LET n == lookup.name
          k == ClassifyFromKnown(n)
          s == lookup.simbad
          asked == \E i \in 1..Len(lookup.calls) : lookup.calls[i] = "_query_simbad"
      IN  IF Strip(n) = <<>>
          THEN /\ lookup.info = TargetInfo("unknown", <<>>, 0, <<>>)
               /\ lookup.calls = <<>>
          ELSE IF k # NoInfo /\ k.confidence >= 90
          THEN lookup.info = k /\ ~asked
          ELSE /\ asked
               /\ IF s # NoInfo /\ s.confidence > 50 THEN lookup.info = s
                  ELSE IF k # NoInfo THEN lookup.info = k
                  ELSE lookup.info = TargetInfo("unknown", n, 0, <<>>)

\* "B33" matched the Barnard pattern (0.7), SIMBAD answered with a type of
\* confidence 0.3, and the pattern match is the result
C25_Witness ==
    /\ Answered
    /\ lookup.name = <<"B", "3", "3">>
    /\ lookup.simbad.confidence = 30
    /\ lookup.info = TargetInfo("star_field", <<"B", "3", "3">>, 70, <<>>)
    /\ lookup.calls = <<"_classify_from_known", "_query_simbad">>

\* C26: every failure result has an empty raster path, an empty preview
\* path, an empty target type and empty parameters, whichever step failed;
\* when the preview write fails the raster file written just before stays
\* on disk and the result names no path to it
C26_FailureResultEmpty ==
    Failed =>
        /\ result.returned /\ ~result.success
        /\ result.output_fits_path.dir = "" /\ result.output_fits_path.stem = ""
        /\ result.output_fits_path.ext = ""
        /\ result.output_preview_path.dir = "" /\ result.output_preview_path.stem = ""
        /\ result.output_preview_path.ext = ""
        /\ result.target_type = ""
        /\ result.processing_params = [empty |-> TRUE]
        /\ (failedAt = "_save_preview" =>
               /\ fs.fits = "written"
               /\ result.output_fits_path # FitsPath(timestamp))

C26_Witness ==
    /\ Failed
    /\ failedAt = "_save_preview"
    /\ target_type = "emission_nebula"
    /\ fs.fits = "written"
    /\ result.output_fits_path = NoPath
    /\ result.target_type = ""

\* os.makedirs has returned in this run
DirectoryStepPassed ==
    /\ pc \notin {"from_dict", "init"}
    /\ ~raised
    /\ failedAt # "makedirs"

\* C27: the output directory is created before the input is loaded: once the
\* directory step has passed the directory exists, at the load step and in
\* every later state, also when the run fails on the input file; and a
\* directory that exists already lets the step pass and is left as it is
C27_DirectoryBeforeLoad ==
    /\ [](DirectoryStepPassed => fs.dir = "present")
    /\ []((Failed /\ failedAt = "_load_fits") => fs.dir = "present")
    /\ [][(pc = "init" /\ fs.dir = "present" /\ pc' # pc) =>
            (pc' = "load" /\ fs' = fs /\ failedAt' = "none" /\ calls' = <<>>)]_vars

C27_Witness ==
    /\ Failed
    /\ failedAt = "_load_fits"
    /\ ~input.readable
    /\ calls = <<"_load_fits">>
    /\ fs = [dir |-> "present", fits |-> "absent", preview |-> "absent"]

\* C28: process_image never modifies the ProcessingParams object it is given:
\* no step of the run changes a field of it, so in every state, and after
\* any run, each field has the value it had when the call was made; the
\* effective values live in the run's own variables
C28_ParamsUntouched ==
    /\ [][(pc # "from_dict") => (params' = params /\ params0' = params0)]_vars
    /\ [](pc # "from_dict" =>
            /\ params.target_type = params0.target_type
            /\ params.stretch_method = params0.stretch_method
            /\ params.stretch_factor = params0.stretch_factor
            /\ params.background_removal = params0.background_removal
            /\ params.star_reduction = params0.star_reduction
            /\ params.color_calibration = params0.color_calibration
            /\ params.noise_reduction = params0.noise_reduction
            /\ params.contrast = params0.contrast)

\* a finished run whose effective values all differ from the caller's
C28_Witness ==
    /\ Succeeded
    /\ entry = "process_image"
    /\ params.target_type = "auto" /\ target_type = "emission_nebula"
    /\ params.stretch_factor = 0 /\ stretch_factor = 18
    /\ ~params.star_reduction /\ star_reduction
    /\ params = params0

\* C29: the stretch factor handed to a stretch algorithm is strictly
\* positive in every run, whatever the user's stretch factor (zero, negative
\* or positive) and the resolved target type: every table entry is positive,
\* and so the offset of the logarithmic stretch (the factor in pixel units,
\* factor x 0.01) is positive whenever process_image calls it
C29_PositiveStretchFactor ==
    /\ \A t \in TargetType : TARGET_PARAMS[t].stretch_factor > 0
    /\ (pc = "stretch" => stretch_factor > 0)
    /\ ((\E f \in StretchFunctions : InSeq(f, calls)) => stretch_factor > 0)
    /\ (InSeq("_log_stretch", calls) => stretch_factor * (One \div 100) > 0)

C29_Witness ==
    /\ pc = "contrast"
    /\ params0.stretch_factor = -10
    /\ params0.stretch_method = "log"
    /\ target_type = "star_field"
    /\ stretch_factor = 5
    /\ InSeq("_log_stretch", calls)

\* the 'complete' event has been handed to the callback
CompleteDelivered == \E i \in 1..Len(events) : events[i].step = "complete"

\* C30: in a run with a callback the 'complete' event, with progress 1.0, is
\* delivered exactly when the run returns success; it is delivered once,
\* after every other progress event, and only when the raster and the
\* preview have both been written
C30_CompleteIffSuccess ==
    /\ []((cb = "set" /\ pc = "returned" /\ ~raised) =>
            (CompleteDelivered <=> (result.returned /\ result.success)))
    /\ [](CompleteDelivered =>
            /\ cb = "set" /\ pc = "returned"
            /\ events[Len(events)] = [step |-> "complete", progress |-> 100]
            /\ \A i \in 1..(Len(events) - 1) : events[i].step # "complete"
            /\ InSeq("_save_fits", calls) /\ InSeq("_save_preview", calls))
    /\ [][(CompleteDelivered' /\ ~CompleteDelivered) =>
            (/\ fs.fits = "written" /\ fs.preview = "written"
             /\ fs' = fs
             /\ Len(events') = Len(events) + 1)]_vars

C30_Witness ==
    /\ Succeeded
    /\ cb = "set"
    /\ cbLogged
    /\ CompleteDelivered
    /\ Len(events) >= 10
    /\ fs.fits = "written" /\ fs.preview = "written"

====
